---- MODULE Spec2Model ----
(***************************************************************************)
(* Turn-resolution core of rogue-artificer: the TurnTracker priority queue *)
(* (turn_tracker.py), the Fighter hit points and death (fighter.py), the   *)
(* actions (actions.py), the AIs (ai.py) and the activation loop           *)
(* (engine.py, input_handlers.py).                                         *)
(***************************************************************************)
EXTENDS Integers, Sequences, FiniteSets, TLC

(***************************************************************************)
(* Bounds of the model.                                                    *)
(***************************************************************************)
\* Largest delay handed to push in the scheduler harness (delays 0..MaxDelay).
MaxDelay == 1
\* Largest number of entries ever pushed in the scheduler harness.
MaxPushes == 3
\* Hit points every actor is created with (entity_factories.py gives 30, 10
\* and 16; the model scales them down so that death is within reach).
MaxHp == 2
\* The message log keeps its last LogWindow messages.
LogWindow == 1
\* The player is given turns while current_tick is below MaxTick: at the
\* ticks 0, 10 and 20, so that a monster is activated three times.
MaxTick == 21
\* The inventory keys the player tries: the first NumKeys letters.
NumKeys == 1
\* A confusion lasts at most MaxTurns activations.
MaxTurns == 2
\* At most MaxNest confusions wrap an actor's behavior.
MaxNest == 1
\* The capacities an Inventory is built with in the inventory runs: 0..MaxCapacity.
MaxCapacity == 2

(***************************************************************************)
(* Actors.  The player and two monsters, as entity_factories.py declares   *)
(* them.  ActorRank stands for whatever order Python could put on the      *)
(* actor objects themselves (identity, hash): the third element of a heap  *)
(* entry.                                                                   *)
(***************************************************************************)
Actors == {"player", "orc", "troll"}

ActorRank(a) == CASE a = "player" -> 0 [] a = "orc" -> 1 [] a = "troll" -> 2

\* Another labelling of the same actors, with the opposite order: the second
\* run of the scheduler harness is fed Relabel(a) wherever the first is fed a.
Relabel(a) == CASE a = "player" -> "troll" [] a = "orc" -> "orc" [] a = "troll" -> "player"

(***************************************************************************)
(* heapq on tuples (tick, entry_counter, actor).  A heap is a sequence;    *)
(* Python's heap[i] is heap[i+1] here.                                     *)
(***************************************************************************)
\* Python's tuple comparison a < b: the first differing element decides.
TupleLT_NoCounter(a, b) ==
    IF a[1] # b[1] THEN a[1] < b[1]
    ELSE IF a[3] # b[3] THEN ActorRank(a[3]) < ActorRank(b[3])
    ELSE FALSE

TupleLT(a, b) ==
    IF a[1] # b[1] THEN a[1] < b[1]
    ELSE IF a[2] # b[2] THEN a[2] < b[2]
    ELSE IF a[3] # b[3] THEN ActorRank(a[3]) < ActorRank(b[3])
    ELSE FALSE

RECURSIVE siftdown_loop(_, _, _, _)
siftdown_loop(heap, startpos, pos, newitem) ==
    IF pos > startpos
    THEN LET parentpos == (pos - 1) \div 2
             parent == heap[parentpos + 1]
         IN  IF TupleLT(newitem, parent)
             THEN siftdown_loop([heap EXCEPT ![pos + 1] = parent], startpos, parentpos, newitem)
             ELSE [heap EXCEPT ![pos + 1] = newitem]
    ELSE [heap EXCEPT ![pos + 1] = newitem]

siftdown(heap, startpos, pos) == siftdown_loop(heap, startpos, pos, heap[pos + 1])

RECURSIVE siftup_loop(_, _, _, _, _)
siftup_loop(heap, startpos, pos, childpos, newitem) ==
    IF childpos < Len(heap)
    THEN LET rightpos == childpos + 1
             c == IF rightpos < Len(heap) /\ ~TupleLT(heap[childpos + 1], heap[rightpos + 1])
                  THEN rightpos ELSE childpos
         IN  siftup_loop([heap EXCEPT ![pos + 1] = heap[c + 1]], startpos, c, 2 * c + 1, newitem)
    ELSE siftdown([heap EXCEPT ![pos + 1] = newitem], startpos, pos)

siftup(heap, pos) == siftup_loop(heap, pos, pos, 2 * pos + 1, heap[pos + 1])

heappush(heap, item) == siftdown(Append(heap, item), 0, Len(heap))

\* heappop of a non-empty heap: the item returned and the heap left.
heappop(heap) ==
    LET lastelt == heap[Len(heap)]
        rest == SubSeq(heap, 1, Len(heap) - 1)
    IN  IF rest # <<>>
        THEN [item |-> rest[1], heap |-> siftup([rest EXCEPT ![1] = lastelt], 0)]
        ELSE [item |-> lastelt, heap |-> <<>>]

(***************************************************************************)
(* TurnTracker.  A tracker is a record of the object's three fields.       *)
(***************************************************************************)
RECURSIVE TurnTracker_init_loop(_, _)
TurnTracker_init_loop(tt, entities) ==
    IF entities = <<>> THEN tt
    ELSE TurnTracker_init_loop(
            [tt EXCEPT !.actor_heap = heappush(@, <<0, tt.entry_counter, Head(entities)>>),
                       !.entry_counter = @ + 1],
            Tail(entities))

\* TurnTracker(entities): entities is the sequence of the Actor entities.
TurnTracker_init(entities) ==
    TurnTracker_init_loop([actor_heap |-> <<>>, entry_counter |-> 0, current_tick |-> 0], entities)

push_AbsoluteTick(tt, actor, delay) ==
    [tt EXCEPT !.actor_heap = heappush(@, <<delay, tt.entry_counter, actor>>),
               !.entry_counter = @ + 1]

push_NoCount(tt, actor, delay) ==
    [tt EXCEPT !.actor_heap = heappush(@, <<tt.current_tick + delay, tt.entry_counter, actor>>)]

push(tt, actor, delay) ==
    [tt EXCEPT !.actor_heap = heappush(@, <<tt.current_tick + delay, tt.entry_counter, actor>>),
               !.entry_counter = @ + 1]

pop_NoTick(tt) ==
    LET r == heappop(tt.actor_heap)
    IN  [tt |-> [tt EXCEPT !.actor_heap = r.heap],
         item |-> r.item,
         actor |-> r.item[3]]

\* pop of a tracker whose heap is not empty: the tracker left, and the entry
\* popped (the code returns its actor).
pop(tt) ==
    LET r == heappop(tt.actor_heap)
    IN  [tt |-> [tt EXCEPT !.actor_heap = r.heap, !.current_tick = r.item[1]],
         item |-> r.item,
         actor |-> r.item[3]]


(***************************************************************************)
(* The world: the map, the entities and the message log.                   *)
(***************************************************************************)
None == [kind |-> "None"]

Max(a, b) == IF a > b THEN a ELSE b
Min(a, b) == IF a < b THEN a ELSE b
Abs(a) == IF a < 0 THEN 0 - a ELSE a

\* game_map.tiles["walkable"], row y of the map at TileMap[y + 1]: a room of
\* floor (1) with one pillar (0).
TileMap == << <<1, 1, 1>>,
              <<1, 0, 1>> >>

Width == Len(TileMap[1])
Height == Len(TileMap)

Tiles == (0..(Width - 1)) \X (0..(Height - 1))

\* game_map.tiles["walkable"][x, y], for (x, y) in bounds
walkable(x, y) == TileMap[y + 1][x + 1] = 1

Walls == {t \in Tiles : ~walkable(t[1], t[2])}

\* GameMap.in_bounds
in_bounds(x, y) == 0 <= x /\ x < Width /\ 0 <= y /\ y < Height

\* MessageLog.add_message; the log keeps its last LogWindow messages.
add_message(log, msg) ==
    LET l == Append(log, msg)
    IN  IF Len(l) > LogWindow THEN SubSeq(l, Len(l) - LogWindow + 1, Len(l)) ELSE l

\* The Actor templates of entity_factories.py, spawned at (x, y); hp is
\* scaled down to MaxHp.  HostileEnemy(actor) starts with an empty path.
NewActor(name, char, color, x, y, base_defense, unarmed_damage) ==
    [x |-> x, y |-> y, char |-> char, color |-> color, name |-> <<name>>,
     blocks_movement |-> TRUE, render_order |-> "ACTOR",
     ai |-> [kind |-> "HostileEnemy", path |-> <<>>],
     max_hp |-> MaxHp, hp |-> MaxHp,
     base_defense |-> base_defense, unarmed_damage |-> unarmed_damage]

InitActor ==
    [a \in Actors |->
        CASE a = "player" -> NewActor("Player", "@", <<255, 255, 255>>, 0, 0, 0, 1)
          [] a = "orc"    -> NewActor("Orc", "o", <<63, 127, 63>>, 2, 0, 0, 3)
          [] a = "troll"  -> NewActor("Troll", "T", <<0, 127, 0>>, 2, 1, 1, 4)]

\* inventory.ALL_KEYS
ALL_KEYS == <<"a", "b", "c", "d", "e", "f", "g", "h", "i", "j", "k", "l", "m",
              "n", "o", "p", "q", "r", "s", "t", "u", "v", "w", "x", "y", "z">>

\* Inventory(capacity): items is the dict as the sequence of its (key, stack)
\* pairs in insertion order; a stack is a sequence of item ids.  armor_keys
\* is the key worn in each slot of item.ArmorSlot.
ArmorSlot == {"head", "body", "hands", "feet", "cloak"}

NewInventory(capacity) ==
    [capacity |-> capacity, items |-> <<>>, wielded_key |-> "None",
     armor_keys |-> [slot \in ArmorSlot |-> "None"]]

InitInventory ==
    [a \in Actors |-> IF a = "player" THEN NewInventory(26) ELSE NewInventory(0)]

\* The items: the health potion on the floor of a new game, and a second
\* health potion and a lightning scroll that are not spawned in it (parent
\* "None", as the templates of entity_factories.py).  cls is the class of the
\* item ("Item", "MeleeWeapon" or "Armor": entity_factories.py builds plain
\* Items only); Item.melee_damage is 1 for every Item that is no MeleeWeapon.
Items == {"potion", "potion2", "scroll"}

InitItem ==
    [i \in Items |->
        IF i = "scroll"
        THEN [x |-> 0, y |-> 0, char |-> "~", name |-> "Lightning Scroll",
              blocks_movement |-> FALSE, melee_damage |-> 1, parent |-> "None",
              cls |-> "Item", consumable |-> "LightningDamageConsumable"]
        ELSE [x |-> IF i = "potion" THEN 1 ELSE 0, y |-> 0, char |-> "!",
              name |-> "Health Potion", blocks_movement |-> FALSE, melee_damage |-> 1,
              parent |-> IF i = "potion" THEN "game_map" ELSE "None",
              cls |-> "Item", consumable |-> "HealingConsumable"]]

\* The world a game starts in.  entities is game_map.entities, in order.
InitWorld ==
    [actor |-> InitActor,
     inventory |-> InitInventory,
     item |-> InitItem,
     entities |-> <<"player", "orc", "troll", "potion">>,
     message_log |-> <<>>,
     event_handler |-> "MainGameEventHandler"]

\* Actor.is_alive
is_alive(g, a) == g.actor[a].ai # None

(***************************************************************************)
(* Fighter (components/fighter.py).                                        *)
(***************************************************************************)
\* Fighter.die
die(g, a) ==
    LET death_message == IF a = "player"
                         THEN [kind |-> "You died!"]
                         ELSE [kind |-> "is dead!", name |-> g.actor[a].name]
    IN  [g EXCEPT !.event_handler = IF a = "player" THEN "GameOverEventHandler" ELSE @,
                  !.actor[a].char = "%",
                  !.actor[a].color = <<191, 0, 0>>,
                  !.actor[a].blocks_movement = FALSE,
                  !.actor[a].ai = None,
                  !.actor[a].name = <<"remains of">> \o @,
                  !.actor[a].render_order = "CORPSE",
                  !.message_log = add_message(@, death_message)]

hp_setter_Revives(g, a, value) ==
    LET g1 == [g EXCEPT !.actor[a].hp = Max(0, Min(value, g.actor[a].max_hp))]
    IN  IF g1.actor[a].hp = 0 /\ g1.actor[a].ai # None THEN die(g1, a)
        ELSE IF g1.actor[a].hp > 0 /\ g1.actor[a].ai = None
        THEN [g1 EXCEPT !.actor[a].ai = [kind |-> "HostileEnemy", path |-> <<>>]]
        ELSE g1

hp_setter_NoAiGuard(g, a, value) ==
    LET g1 == [g EXCEPT !.actor[a].hp = Max(0, Min(value, g.actor[a].max_hp))]
    IN  IF g1.actor[a].hp = 0 THEN die(g1, a) ELSE g1

hp_setter_NoClamp(g, a, value) ==
    LET g1 == [g EXCEPT !.actor[a].hp = Min(value, g.actor[a].max_hp)]
    IN  IF g1.actor[a].hp <= 0 /\ g1.actor[a].ai # None THEN die(g1, a) ELSE g1

\* Fighter.hp = value
hp_setter(g, a, value) ==
    LET g1 == [g EXCEPT !.actor[a].hp = Max(0, Min(value, g.actor[a].max_hp))]
    IN  IF g1.actor[a].hp = 0 /\ g1.actor[a].ai # None THEN die(g1, a) ELSE g1


(***************************************************************************)
(* GameMap queries.                                                        *)
(***************************************************************************)
MinOf(S) == CHOOSE m \in S : \A n \in S : m <= n

\* The fields of entity e, an actor or an item.
Ent(g, e) == IF e \in Actors THEN g.actor[e] ELSE g.item[e]

\* GameMap.get_blocking_entity_at_location: the first entity of
\* game_map.entities that blocks movement and stands on (x, y), or "None".
get_blocking_entity_at_location(g, x, y) ==
    LET idx == {i \in 1..Len(g.entities) :
                    /\ Ent(g, g.entities[i]).blocks_movement
                    /\ Ent(g, g.entities[i]).x = x
                    /\ Ent(g, g.entities[i]).y = y}
    IN  IF idx = {} THEN "None" ELSE g.entities[MinOf(idx)]

\* GameMap.get_actor_at_location: the first living actor on (x, y), or "None".
get_actor_at_location(g, x, y) ==
    LET idx == {i \in 1..Len(g.entities) :
                    /\ g.entities[i] \in Actors
                    /\ is_alive(g, g.entities[i])
                    /\ g.actor[g.entities[i]].x = x
                    /\ g.actor[g.entities[i]].y = y}
    IN  IF idx = {} THEN "None" ELSE g.entities[MinOf(idx)]

\* GameMap.items: the items of game_map.entities, in order.
game_map_items(g) ==
    LET IsItem(e) == e \in Items IN SelectSeq(g.entities, IsItem)

\* list.remove(e): the sequence without its first occurrence of e.
Remove(seq, e) ==
    LET idx == {i \in 1..Len(seq) : seq[i] = e}
    IN  IF idx = {} THEN seq
        ELSE SubSeq(seq, 1, MinOf(idx) - 1) \o SubSeq(seq, MinOf(idx) + 1, Len(seq))

(***************************************************************************)
(* What an action's perform() does: a set of outcomes, one per value the   *)
(* random numbers can take.  An outcome is the world left and the result:  *)
(* the delay returned, or the exception raised.                            *)
(***************************************************************************)
Ok(g, delay) == [g |-> g, result |-> [kind |-> "ok", delay |-> delay]]
Impossible(g, msg) == [g |-> g, result |-> [kind |-> "Impossible", msg |-> msg]]
Raised(g, exc) == [g |-> g, result |-> [kind |-> exc]]

(***************************************************************************)
(* Inventory (components/inventory.py).                                    *)
(***************************************************************************)
HasKey(inv, key) == \E i \in 1..Len(inv.items) : inv.items[i].key = key

KeyIndex(inv, key) == CHOOSE i \in 1..Len(inv.items) : inv.items[i].key = key

\* self.items[key]
StackAt(inv, key) == inv.items[KeyIndex(inv, key)].stack

\* Inventory.wield
Inventory_wield(g, a, key) == [g EXCEPT !.inventory[a].wielded_key = key]

\* Inventory.wielded: the item, "None", or KeyError when wielded_key is set
\* and is no key of items.
Inventory_wielded(g, a) ==
    LET inv == g.inventory[a]
    IN  IF inv.wielded_key # "None"
        THEN IF HasKey(inv, inv.wielded_key)
             THEN [raised |-> "None", item |-> StackAt(inv, inv.wielded_key)[1]]
             ELSE [raised |-> "KeyError", item |-> "None"]
        ELSE [raised |-> "None", item |-> "None"]

\* Inventory.get_one: the first item of the stack at key, or KeyError.
Inventory_get_one(g, a, key) ==
    LET inv == g.inventory[a]
    IN  IF HasKey(inv, key) THEN [raised |-> "None", item |-> StackAt(inv, key)[1]]
        ELSE [raised |-> "KeyError", item |-> "None"]

\* Inventory.consume_key: pops the last item of the stack at key and deletes
\* the key when the stack is empty.
Inventory_consume_key(g, a, key) ==
    LET inv == g.inventory[a]
    IN  IF ~HasKey(inv, key) THEN [raised |-> "KeyError", g |-> g]
        ELSE LET k == KeyIndex(inv, key)
                 stack == StackAt(inv, key)
                 rest == SubSeq(stack, 1, Len(stack) - 1)
             IN  [raised |-> "None",
                  g |-> IF rest = <<>>
                        THEN [g EXCEPT !.inventory[a].items =
                                  SubSeq(@, 1, k - 1) \o SubSeq(@, k + 1, Len(@))]
                        ELSE [g EXCEPT !.inventory[a].items[k].stack = rest]]

\* Inventory.wear: the slot of the armor at key refers to key.
Inventory_wear(g, a, key) ==
    [g EXCEPT !.inventory[a].armor_keys[g.item[StackAt(g.inventory[a], key)[1]].slot] = key]

\* Inventory.defense: the defense of the armor worn; nothing in this world
\* is armor.
Inventory_defense(g, a) == 0

\* Entity.place(x, y, game_map) of an item.
Entity_place(g, e, x, y) ==
    LET g1 == [g EXCEPT !.item[e].x = x, !.item[e].y = y]
        g2 == IF g1.item[e].parent = "game_map"
              THEN [g1 EXCEPT !.entities = Remove(@, e)] ELSE g1
    IN  [g2 EXCEPT !.item[e].parent = "game_map", !.entities = Append(@, e)]

RECURSIVE place_all(_, _, _, _)
place_all(g, stack, x, y) ==
    IF stack = <<>> THEN g
    ELSE place_all(Entity_place(g, Head(stack), x, y), Tail(stack), x, y)

Inventory_drop_PlacesFirstOnly(g, a, key) ==
    LET inv == g.inventory[a]
    IN  IF ~HasKey(inv, key) THEN [raised |-> "KeyError", g |-> g]
        ELSE LET item_stack == StackAt(inv, key)
                 k == KeyIndex(inv, key)
                 g1 == [g EXCEPT !.inventory[a].items =
                            SubSeq(@, 1, k - 1) \o SubSeq(@, k + 1, Len(@))]
                 g2 == Entity_place(g1, item_stack[1], g.actor[a].x, g.actor[a].y)
                 msg == [kind |-> "You dropped", count |-> Len(item_stack),
                         name |-> g.item[item_stack[1]].name]
             IN  [raised |-> "None", g |-> [g2 EXCEPT !.message_log = add_message(@, msg)]]

\* Inventory.drop of actor a's inventory.
Inventory_drop(g, a, key) ==
    LET inv == g.inventory[a]
    IN  IF ~HasKey(inv, key) THEN [raised |-> "KeyError", g |-> g]
        ELSE LET item_stack == StackAt(inv, key)
                 k == KeyIndex(inv, key)
                 g1 == [g EXCEPT !.inventory[a].items =
                            SubSeq(@, 1, k - 1) \o SubSeq(@, k + 1, Len(@))]
                 g2 == place_all(g1, item_stack, g.actor[a].x, g.actor[a].y)
                 msg == [kind |-> "You dropped", count |-> Len(item_stack),
                         name |-> g.item[item_stack[1]].name]
             IN  [raised |-> "None", g |-> [g2 EXCEPT !.message_log = add_message(@, msg)]]

Inventory_add_AnyStack(g, a, item) ==
    LET inv == g.inventory[a]
        same == 1..Len(inv.items)
        free == {j \in 1..Len(ALL_KEYS) : ~HasKey(inv, ALL_KEYS[j])}
    IN  IF same # {}
        THEN [raised |-> "None",
              g |-> [g EXCEPT !.inventory[a].items[MinOf(same)].stack = Append(@, item),
                              !.item[item].parent = "inventory"]]
        ELSE IF free # {}
        THEN [raised |-> "None",
              g |-> [g EXCEPT !.inventory[a].items =
                                  Append(@, [key |-> ALL_KEYS[MinOf(free)], stack |-> <<item>>]),
                              !.item[item].parent = "inventory"]]
        ELSE [raised |-> "Impossible", g |-> g]

\* Inventory.add of actor a's inventory.
Inventory_add(g, a, item) ==
    LET inv == g.inventory[a]
        same == {i \in 1..Len(inv.items) :
                    g.item[inv.items[i].stack[1]].name = g.item[item].name}
        free == {j \in 1..Len(ALL_KEYS) : ~HasKey(inv, ALL_KEYS[j])}
    IN  IF same # {}
        THEN [raised |-> "None",
              g |-> [g EXCEPT !.inventory[a].items[MinOf(same)].stack = Append(@, item),
                              !.item[item].parent = "inventory"]]
        ELSE IF free # {}
        THEN [raised |-> "None",
              g |-> [g EXCEPT !.inventory[a].items =
                                  Append(@, [key |-> ALL_KEYS[MinOf(free)], stack |-> <<item>>]),
                              !.item[item].parent = "inventory"]]
        ELSE [raised |-> "Impossible", g |-> g]

(***************************************************************************)
(* Actor properties (entity.py).                                           *)
(***************************************************************************)
move_delay(g, a) == 10
melee_delay(g, a) == 10

\* Actor.melee_damage: the wielded item's, else the fighter's unarmed damage.
melee_damage(g, a) ==
    LET w == Inventory_wielded(g, a)
    IN  IF w.raised # "None" THEN [raised |-> w.raised, value |-> 0]
        ELSE IF w.item # "None" THEN [raised |-> "None", value |-> g.item[w.item].melee_damage]
        ELSE [raised |-> "None", value |-> g.actor[a].unarmed_damage]

\* Actor.defense
defense(g, a) == g.actor[a].base_defense + Inventory_defense(g, a)

\* Entity.move
Entity_move(g, a, dx, dy) == [g EXCEPT !.actor[a].x = @ + dx, !.actor[a].y = @ + dy]

(***************************************************************************)
(* Actions (actions.py).                                                   *)
(***************************************************************************)
\* WaitAction.perform
WaitAction_perform(g, a) == {Ok(g, 10)}

\* The body of MeleeAction.perform once the two random numbers are drawn.
MeleeAction_resolve(g, a, target, damage) ==
    LET msg == [kind |-> "attacks", attacker |-> g.actor[a].name,
                target |-> g.actor[target].name, damage |-> Max(damage, 0)]
        g1 == [g EXCEPT !.message_log = add_message(@, msg)]
    IN  IF damage > 0
        THEN Ok(hp_setter(g1, target, g1.actor[target].hp - damage), melee_delay(g, a))
        ELSE Ok(g1, melee_delay(g, a))

\* MeleeAction.perform
MeleeAction_perform(g, a, dx, dy) ==
    LET target == get_actor_at_location(g, g.actor[a].x + dx, g.actor[a].y + dy)
        md == melee_damage(g, a)
    IN  IF target = "None" THEN {Impossible(g, "Nothing to attack")}
        ELSE IF md.raised # "None" THEN {Raised(g, md.raised)}
        ELSE IF md.value < 1 \/ defense(g, target) < 0 THEN {Raised(g, "ValueError")}
        ELSE {MeleeAction_resolve(g, a, target, r1 - r2) :
                 r1 \in 1..md.value, r2 \in 0..defense(g, target)}

MovementAction_perform_NoWallCheck(g, a, dx, dy) ==
    LET dest_x == g.actor[a].x + dx
        dest_y == g.actor[a].y + dy
    IN  IF ~in_bounds(dest_x, dest_y) THEN {Impossible(g, "That's the edge of the world")}
        ELSE IF get_blocking_entity_at_location(g, dest_x, dest_y) # "None"
             THEN {Impossible(g, "Something is in the way")}
        ELSE {Ok(Entity_move(g, a, dx, dy), move_delay(g, a))}

MovementAction_perform_NoBlockCheck(g, a, dx, dy) ==
    LET dest_x == g.actor[a].x + dx
        dest_y == g.actor[a].y + dy
    IN  IF ~in_bounds(dest_x, dest_y) THEN {Impossible(g, "That's the edge of the world")}
        ELSE IF ~walkable(dest_x, dest_y) THEN {Impossible(g, "There's a wall there")}
        ELSE {Ok(Entity_move(g, a, dx, dy), move_delay(g, a))}

\* MovementAction.perform
MovementAction_perform(g, a, dx, dy) ==
    LET dest_x == g.actor[a].x + dx
        dest_y == g.actor[a].y + dy
    IN  IF ~in_bounds(dest_x, dest_y) THEN {Impossible(g, "That's the edge of the world")}
        ELSE IF ~walkable(dest_x, dest_y) THEN {Impossible(g, "There's a wall there")}
        ELSE IF get_blocking_entity_at_location(g, dest_x, dest_y) # "None"
             THEN {Impossible(g, "Something is in the way")}
        ELSE {Ok(Entity_move(g, a, dx, dy), move_delay(g, a))}

BumpAction_perform_AlwaysMove(g, a, dx, dy) == MovementAction_perform(g, a, dx, dy)

\* BumpAction.perform
BumpAction_perform(g, a, dx, dy) ==
    IF get_actor_at_location(g, g.actor[a].x + dx, g.actor[a].y + dy) # "None"
    THEN MeleeAction_perform(g, a, dx, dy)
    ELSE MovementAction_perform(g, a, dx, dy)

PickupAction_perform_KeepsInWorld(g, a) ==
    LET Here(i) == g.item[i].x = g.actor[a].x /\ g.item[i].y = g.actor[a].y
        here == SelectSeq(game_map_items(g), Here)
    IN  IF here = <<>> THEN {Impossible(g, "There is nothing here to pick up.")}
        ELSE IF Len(g.inventory[a].items) >= g.inventory[a].capacity
             THEN {Impossible(g, "Your inventory is full.")}
        ELSE LET item == here[1]
                 added == Inventory_add(g, a, item)
                 msg == [kind |-> "You picked up", name |-> g.item[item].name]
             IN  IF added.raised # "None" THEN {Impossible(added.g, "Inventory is full")}
                 ELSE {Ok([added.g EXCEPT !.message_log = add_message(@, msg)], 10)}

PickupAction_perform_NoCapacityCheck(g, a) ==
    LET Here(i) == g.item[i].x = g.actor[a].x /\ g.item[i].y = g.actor[a].y
        here == SelectSeq(game_map_items(g), Here)
    IN  IF here = <<>> THEN {Impossible(g, "There is nothing here to pick up.")}
        ELSE LET item == here[1]
                 g1 == [g EXCEPT !.entities = Remove(@, item)]
                 added == Inventory_add(g1, a, item)
                 msg == [kind |-> "You picked up", name |-> g.item[item].name]
             IN  IF added.raised # "None" THEN {Impossible(added.g, "Inventory is full")}
                 ELSE {Ok([added.g EXCEPT !.message_log = add_message(@, msg)], 10)}

\* PickupAction.perform
PickupAction_perform(g, a) ==
    LET Here(i) == g.item[i].x = g.actor[a].x /\ g.item[i].y = g.actor[a].y
        here == SelectSeq(game_map_items(g), Here)
    IN  IF here = <<>> THEN {Impossible(g, "There is nothing here to pick up.")}
        ELSE IF Len(g.inventory[a].items) >= g.inventory[a].capacity
             THEN {Impossible(g, "Your inventory is full.")}
        ELSE LET item == here[1]
                 g1 == [g EXCEPT !.entities = Remove(@, item)]
                 added == Inventory_add(g1, a, item)
                 msg == [kind |-> "You picked up", name |-> g.item[item].name]
             IN  IF added.raised # "None" THEN {Impossible(added.g, "Inventory is full")}
                 ELSE {Ok([added.g EXCEPT !.message_log = add_message(@, msg)], 10)}

\* DropItem.perform
DropItem_perform(g, a, item_key) ==
    LET dropped == Inventory_drop(g, a, item_key)
    IN  IF dropped.raised # "None" THEN {Raised(dropped.g, dropped.raised)}
        ELSE {Ok(dropped.g, 10)}

(***************************************************************************)
(* Consumables (components/consumable.py).                                 *)
(***************************************************************************)
\* HealingConsumable(amount=4)
HealingAmount == 4

\* Consumable.is_quaffable: potions are drunk, scrolls are read.
is_quaffable(consumable) == consumable = "HealingConsumable"

\* HealingConsumable.activate: the consumer recovers up to amount hit points;
\* Impossible when there is nothing to recover.
HealingConsumable_activate(g, consumer, item) ==
    LET hp == g.actor[consumer].hp
        new_hp == Min(g.actor[consumer].max_hp, hp + HealingAmount)
        msg == [kind |-> "You consume", name |-> g.item[item].name, amount |-> new_hp - hp]
    IN  IF new_hp - hp > 0
        THEN [raised |-> "None", msg |-> "None",
              g |-> [hp_setter(g, consumer, new_hp) EXCEPT !.message_log = add_message(@, msg)]]
        ELSE [raised |-> "Impossible", msg |-> "Your health is already full.", g |-> g]

QuaffAction_perform_ConsumeFirst(g, a, item_key) ==
    LET got == Inventory_get_one(g, a, item_key)
    IN  IF got.raised # "None" THEN {Raised(g, got.raised)}
        ELSE LET g1 == Inventory_consume_key(g, a, item_key).g
             IN  IF g.item[got.item].consumable # "None"
                    /\ is_quaffable(g.item[got.item].consumable)
                 THEN LET activated == HealingConsumable_activate(g1, a, got.item)
                      IN  IF activated.raised # "None"
                          THEN {Impossible(activated.g, activated.msg)}
                          ELSE {Ok(activated.g, 10)}
                 ELSE {Impossible(g1, "You can't drink that")}

\* QuaffAction.perform
QuaffAction_perform(g, a, item_key) ==
    LET got == Inventory_get_one(g, a, item_key)
    IN  IF got.raised # "None" THEN {Raised(g, got.raised)}
        ELSE IF g.item[got.item].consumable # "None"
                /\ is_quaffable(g.item[got.item].consumable)
        THEN LET activated == HealingConsumable_activate(g, a, got.item)
             IN  IF activated.raised # "None"
                 THEN {Impossible(activated.g, activated.msg)}
                 ELSE {Ok(Inventory_consume_key(activated.g, a, item_key).g, 10)}
        ELSE {Impossible(g, "You can't drink that")}

\* WieldAction.perform
WieldAction_perform(g, a, item_key) == {Ok(Inventory_wield(g, a, item_key), 10)}

\* WearAction.perform
WearAction_perform(g, a, item_key) ==
    LET got == Inventory_get_one(g, a, item_key)
    IN  IF got.raised # "None" THEN {Raised(g, got.raised)}
        ELSE IF g.item[got.item].cls = "Armor"
        THEN {Ok(Inventory_wear(g, a, item_key), 10)}
        ELSE {Impossible(g, "You can't wear that")}

\* The actions the input handlers hand to handle_action.
Directions == {d \in (0 - 1 .. 1) \X (0 - 1 .. 1) : d # <<0, 0>>}

TriedKeys == {ALL_KEYS[j] : j \in 1..NumKeys}

PlayerActions ==
    {[type |-> "WaitAction", dx |-> 0, dy |-> 0, item_key |-> "None"],
     [type |-> "PickupAction", dx |-> 0, dy |-> 0, item_key |-> "None"]}
    \cup {[type |-> "BumpAction", dx |-> d[1], dy |-> d[2], item_key |-> "None"] : d \in Directions}
    \cup {[type |-> t, dx |-> 0, dy |-> 0, item_key |-> k] :
             t \in {"DropItem", "WieldAction", "QuaffAction", "WearAction"}, k \in TriedKeys}

\* action.perform() for the action the player chose.
Action_perform(g, a, action) ==
    CASE action.type = "WaitAction" -> WaitAction_perform(g, a)
      [] action.type = "BumpAction" -> BumpAction_perform(g, a, action.dx, action.dy)
      [] action.type = "PickupAction" -> PickupAction_perform(g, a)
      [] action.type = "DropItem" -> DropItem_perform(g, a, action.item_key)
      [] action.type = "WieldAction" -> WieldAction_perform(g, a, action.item_key)
      [] action.type = "QuaffAction" -> QuaffAction_perform(g, a, action.item_key)
      [] action.type = "WearAction" -> WearAction_perform(g, a, action.item_key)


(***************************************************************************)
(* AI (components/ai.py).                                                  *)
(***************************************************************************)
Cardinal(u, t) == u[1] = t[1] \/ u[2] = t[2]

Neighbors(t) ==
    {u \in Tiles : u # t /\ Abs(u[1] - t[1]) <= 1 /\ Abs(u[2] - t[2]) <= 1}

\* The cost array of get_path_to: walkable as 0 or 1, plus 10 for every
\* movement-blocking entity on a tile whose cost is not 0.
PathCost(g, t) ==
    IF ~walkable(t[1], t[2]) THEN 0
    ELSE 1 + 10 * Cardinality({i \in 1..Len(g.entities) :
                                   /\ Ent(g, g.entities[i]).blocks_movement
                                   /\ Ent(g, g.entities[i]).x = t[1]
                                   /\ Ent(g, g.entities[i]).y = t[2]})

\* tcod.path.SimpleGraph(cost, cardinal=2, diagonal=3): the cost of the step
\* from u onto its neighbour t.
StepCost(g, u, t) == PathCost(g, t) * (IF Cardinal(u, t) THEN 2 ELSE 3)

Unreachable == 1000 * Width * Height

RECURSIVE Relax(_, _)
Relax(g, D) ==
    LET D1 == [t \in Tiles |->
                   LET via == {D[u] + StepCost(g, u, t) :
                                  u \in {v \in Neighbors(t) : D[v] < Unreachable /\ PathCost(g, t) > 0}}
                   IN  IF via = {} THEN D[t] ELSE Min(D[t], MinOf(via))]
    IN  IF D1 = D THEN D ELSE Relax(g, D1)

\* The least cost of reaching each tile from root.
Distances(g, root) ==
    Relax(g, [t \in Tiles |-> IF t = root THEN 0 ELSE Unreachable])

RECURSIVE PathsFrom(_, _, _, _)
PathsFrom(g, D, root, t) ==
    IF t = root THEN {<<>>}
    ELSE UNION {{Append(p, t) : p \in PathsFrom(g, D, root, u)} :
                   u \in {v \in Neighbors(t) :
                             D[v] < Unreachable /\ D[v] + StepCost(g, v, t) = D[t]}}

\* BaseAI.get_path_to: the shortest paths to (dest_x, dest_y) without the
\* starting point; the pathfinder returns one of them, and the empty path
\* when there is none.
get_path_to(g, a, dest_x, dest_y) ==
    LET root == <<g.actor[a].x, g.actor[a].y>>
        D == Distances(g, root)
    IN  IF D[<<dest_x, dest_y>>] >= Unreachable THEN {<<>>}
        ELSE PathsFrom(g, D, root, <<dest_x, dest_y>>)

\* HostileEnemy.perform from "if self.path:" on.
HostileEnemy_follow(g, a) ==
    IF g.actor[a].ai.path # <<>>
    THEN LET dest == Head(g.actor[a].ai.path)
             g1 == [g EXCEPT !.actor[a].ai.path = Tail(@)]
         IN  MovementAction_perform(g1, a, dest[1] - g.actor[a].x, dest[2] - g.actor[a].y)
    ELSE WaitAction_perform(g, a)

HostileEnemy_perform_IgnoresVisibility(g, a, vis) ==
    LET dx == g.actor["player"].x - g.actor[a].x
        dy == g.actor["player"].y - g.actor[a].y
        distance == Max(Abs(dx), Abs(dy))
    IN  IF distance <= 1 THEN MeleeAction_perform(g, a, dx, dy)
        ELSE UNION {HostileEnemy_follow([g EXCEPT !.actor[a].ai.path = p], a) :
                       p \in get_path_to(g, a, g.actor["player"].x, g.actor["player"].y)}

\* HostileEnemy.perform; vis is game_map.visible.
HostileEnemy_perform(g, a, vis) ==
    LET dx == g.actor["player"].x - g.actor[a].x
        dy == g.actor["player"].y - g.actor[a].y
        distance == Max(Abs(dx), Abs(dy))
    IN  IF <<g.actor[a].x, g.actor[a].y>> \in vis
        THEN IF distance <= 1 THEN MeleeAction_perform(g, a, dx, dy)
             ELSE UNION {HostileEnemy_follow([g EXCEPT !.actor[a].ai.path = p], a) :
                            p \in get_path_to(g, a, g.actor["player"].x, g.actor["player"].y)}
        ELSE HostileEnemy_follow(g, a)

\* ConfusedEnemy(actor, previous_ai, turns_remaining)
NewConfusedEnemy(previous_ai, turns_remaining) ==
    [kind |-> "ConfusedEnemy", previous_ai |-> previous_ai, turns_remaining |-> turns_remaining]

\* The directions ConfusedEnemy.perform chooses from.
ConfusedDirections ==
    {<<0 - 1, 0 - 1>>, <<0, 0 - 1>>, <<1, 0 - 1>>, <<0 - 1, 0>>,
     <<1, 0>>, <<0 - 1, 1>>, <<0, 1>>, <<1, 1>>}

ConfusedEnemy_perform_RestoreCostsTurn(g, a) ==
    IF g.actor[a].ai.turns_remaining <= 0
    THEN LET msg == [kind |-> "is no longer confused", name |-> g.actor[a].name]
         IN  {Ok([g EXCEPT !.message_log = add_message(@, msg),
                           !.actor[a].ai = g.actor[a].ai.previous_ai], 10)}
    ELSE LET g1 == [g EXCEPT !.actor[a].ai.turns_remaining = @ - 1]
         IN  UNION {BumpAction_perform(g1, a, d[1], d[2]) : d \in ConfusedDirections}

ConfusedEnemy_perform_NeverRestores(g, a) ==
    IF g.actor[a].ai.turns_remaining <= 0
    THEN LET msg == [kind |-> "is no longer confused", name |-> g.actor[a].name]
         IN  {Ok([g EXCEPT !.message_log = add_message(@, msg)], 0)}
    ELSE LET g1 == [g EXCEPT !.actor[a].ai.turns_remaining = @ - 1]
         IN  UNION {BumpAction_perform(g1, a, d[1], d[2]) : d \in ConfusedDirections}

ConfusedEnemy_perform_KeepTurnOnFailure(g, a) ==
    IF g.actor[a].ai.turns_remaining <= 0
    THEN LET msg == [kind |-> "is no longer confused", name |-> g.actor[a].name]
         IN  {Ok([g EXCEPT !.message_log = add_message(@, msg),
                           !.actor[a].ai = g.actor[a].ai.previous_ai], 0)}
    ELSE LET g1 == [g EXCEPT !.actor[a].ai.turns_remaining = @ - 1]
         IN  {IF o.result.kind = "Impossible" THEN [o EXCEPT !.g = g] ELSE o :
                 o \in UNION {BumpAction_perform(g1, a, d[1], d[2]) : d \in ConfusedDirections}}

\* ConfusedEnemy.perform: one outcome per direction random.choice can give.
ConfusedEnemy_perform(g, a) ==
    IF g.actor[a].ai.turns_remaining <= 0
    THEN LET msg == [kind |-> "is no longer confused", name |-> g.actor[a].name]
         IN  {Ok([g EXCEPT !.message_log = add_message(@, msg),
                           !.actor[a].ai = g.actor[a].ai.previous_ai], 0)}
    ELSE LET g1 == [g EXCEPT !.actor[a].ai.turns_remaining = @ - 1]
         IN  UNION {BumpAction_perform(g1, a, d[1], d[2]) : d \in ConfusedDirections}

\* actor.ai.perform()
AI_perform(g, a, vis) ==
    IF g.actor[a].ai.kind = "ConfusedEnemy"
    THEN ConfusedEnemy_perform(g, a)
    ELSE HostileEnemy_perform(g, a, vis)

(***************************************************************************)
(* Engine (engine.py) and EventHandler.handle_action (input_handlers.py).  *)
(***************************************************************************)
FovRadius == 8

\* Whether the opaque tile w hides tile t from the viewer on tile p: w lies
\* between them, within half a tile of the straight line from p to t.
Hides(p, t, w) ==
    LET dx == t[1] - p[1]
        dy == t[2] - p[2]
        cross == dx * (w[2] - p[2]) - dy * (w[1] - p[1])
    IN  /\ w # p /\ w # t
        /\ Min(p[1], t[1]) <= w[1] /\ w[1] <= Max(p[1], t[1])
        /\ Min(p[2], t[2]) <= w[2] /\ w[2] <= Max(p[2], t[2])
        /\ 2 * Abs(cross) <= Max(Abs(dx), Abs(dy))

\* tcod.map.compute_fov(transparent, pov, radius): walls are opaque.
compute_fov(pov, radius) ==
    {t \in Tiles :
        /\ Max(Abs(t[1] - pov[1]), Abs(t[2] - pov[2])) <= radius
        /\ \A w \in Walls : ~Hides(pov, t, w)}

\* Engine.update_fov: the new game_map.visible.
update_fov(g) == compute_fov(<<g.actor["player"].x, g.actor["player"].y>>, FovRadius)

\* EventHandler.handle_events after handle_action returned True.
next_handler(g) ==
    IF ~is_alive(g, "player") THEN "GameOverEventHandler" ELSE "MainGameEventHandler"

\* main(): an exception other than Impossible leaves handle_events and is
\* written to the message log.
log_traceback(g, exc) == [g EXCEPT !.message_log = add_message(@, [kind |-> "Traceback", exc |-> exc])]

handle_action_PushOnImpossible(g, tt, out) ==
    IF out.result.kind = "ok"
    THEN [world |-> out.g, turn_tracker |-> push(tt, "player", out.result.delay), pc |-> "enemy_turns"]
    ELSE [world |-> [out.g EXCEPT !.message_log =
                        add_message(@, [kind |-> "Impossible", msg |-> "x"])],
          turn_tracker |-> push(tt, "player", 10), pc |-> "enemy_turns"]

handle_action_NoPush(g, tt, out) ==
    IF out.result.kind = "ok"
    THEN [world |-> out.g, turn_tracker |-> tt, pc |-> "enemy_turns"]
    ELSE IF out.result.kind = "Impossible"
    THEN [world |-> [out.g EXCEPT !.message_log =
                        add_message(@, [kind |-> "Impossible", msg |-> out.result.msg])],
          turn_tracker |-> tt, pc |-> "input"]
    ELSE [world |-> log_traceback(out.g, out.result.kind), turn_tracker |-> tt, pc |-> "input"]

\* EventHandler.handle_action up to the call of handle_enemy_turns, for the
\* outcome out of action.perform(): the world and the tracker left, and
\* whether handle_enemy_turns runs next.
handle_action(g, tt, out) ==
    IF out.result.kind = "ok"
    THEN [world |-> out.g, turn_tracker |-> push(tt, "player", out.result.delay), pc |-> "enemy_turns"]
    ELSE IF out.result.kind = "Impossible"
    THEN [world |-> [out.g EXCEPT !.message_log =
                        add_message(@, [kind |-> "Impossible", msg |-> out.result.msg])],
          turn_tracker |-> tt, pc |-> "input"]
    ELSE [world |-> log_traceback(out.g, out.result.kind), turn_tracker |-> tt, pc |-> "input"]

handle_enemy_turns_step_NoDeathCheck(g, tt, vis) ==
    IF tt.actor_heap = <<>>
    THEN {[world |-> g, turn_tracker |-> tt, step |-> "raise", actor |-> "None",
           result |-> [kind |-> "IndexError"]]}
    ELSE LET p == pop(tt)
             actor == p.actor
         IN  IF ~is_alive(g, actor)
             THEN {[world |-> g, turn_tracker |-> p.tt, step |-> "continue", actor |-> actor,
                    result |-> [kind |-> "None"]]}
             ELSE IF actor = "player"
             THEN {[world |-> g, turn_tracker |-> p.tt, step |-> "return", actor |-> actor,
                    result |-> [kind |-> "None"]]}
             ELSE {IF out.result.kind = "ok"
                   THEN [world |-> out.g, turn_tracker |-> push(p.tt, actor, out.result.delay),
                         step |-> "perform", actor |-> actor, result |-> out.result]
                   ELSE IF out.result.kind = "Impossible"
                   THEN [world |-> out.g, turn_tracker |-> push(p.tt, actor, 10),
                         step |-> "perform", actor |-> actor, result |-> out.result]
                   ELSE [world |-> out.g, turn_tracker |-> p.tt,
                         step |-> "raise", actor |-> actor, result |-> out.result] :
                   out \in AI_perform(g, actor, vis)}

handle_enemy_turns_step_RepushDead(g, tt, vis) ==
    IF ~is_alive(g, "player")
    THEN {[world |-> g, turn_tracker |-> tt, step |-> "return", actor |-> "None",
           result |-> [kind |-> "None"]]}
    ELSE IF tt.actor_heap = <<>>
    THEN {[world |-> g, turn_tracker |-> tt, step |-> "raise", actor |-> "None",
           result |-> [kind |-> "IndexError"]]}
    ELSE LET p == pop(tt)
             actor == p.actor
         IN  IF actor = "player"
             THEN {[world |-> g, turn_tracker |-> p.tt, step |-> "return", actor |-> actor,
                    result |-> [kind |-> "None"]]}
             ELSE IF ~is_alive(g, actor)
             THEN {[world |-> g, turn_tracker |-> push(p.tt, actor, 10), step |-> "continue",
                    actor |-> actor, result |-> [kind |-> "None"]]}
             ELSE {IF out.result.kind = "ok"
                   THEN [world |-> out.g, turn_tracker |-> push(p.tt, actor, out.result.delay),
                         step |-> "perform", actor |-> actor, result |-> out.result]
                   ELSE IF out.result.kind = "Impossible"
                   THEN [world |-> out.g, turn_tracker |-> push(p.tt, actor, 10),
                         step |-> "perform", actor |-> actor, result |-> out.result]
                   ELSE [world |-> out.g, turn_tracker |-> p.tt,
                         step |-> "raise", actor |-> actor, result |-> out.result] :
                   out \in AI_perform(g, actor, vis)}

handle_enemy_turns_step_StallOnImpossible(g, tt, vis) ==
    IF ~is_alive(g, "player")
    THEN {[world |-> g, turn_tracker |-> tt, step |-> "return", actor |-> "None",
           result |-> [kind |-> "None"]]}
    ELSE IF tt.actor_heap = <<>>
    THEN {[world |-> g, turn_tracker |-> tt, step |-> "raise", actor |-> "None",
           result |-> [kind |-> "IndexError"]]}
    ELSE LET p == pop(tt)
             actor == p.actor
         IN  IF ~is_alive(g, actor)
             THEN {[world |-> g, turn_tracker |-> p.tt, step |-> "continue", actor |-> actor,
                    result |-> [kind |-> "None"]]}
             ELSE IF actor = "player"
             THEN {[world |-> g, turn_tracker |-> p.tt, step |-> "return", actor |-> actor,
                    result |-> [kind |-> "None"]]}
             ELSE {IF out.result.kind = "ok"
                   THEN [world |-> out.g, turn_tracker |-> push(p.tt, actor, out.result.delay),
                         step |-> "perform", actor |-> actor, result |-> out.result]
                   ELSE IF out.result.kind = "Impossible"
                   THEN [world |-> out.g, turn_tracker |-> push(p.tt, actor, 0),
                         step |-> "perform", actor |-> actor, result |-> out.result]
                   ELSE [world |-> out.g, turn_tracker |-> p.tt,
                         step |-> "raise", actor |-> actor, result |-> out.result] :
                   out \in AI_perform(g, actor, vis)}

handle_enemy_turns_step_DropOnImpossible(g, tt, vis) ==
    IF ~is_alive(g, "player")
    THEN {[world |-> g, turn_tracker |-> tt, step |-> "return", actor |-> "None",
           result |-> [kind |-> "None"]]}
    ELSE IF tt.actor_heap = <<>>
    THEN {[world |-> g, turn_tracker |-> tt, step |-> "raise", actor |-> "None",
           result |-> [kind |-> "IndexError"]]}
    ELSE LET p == pop(tt)
             actor == p.actor
         IN  IF ~is_alive(g, actor)
             THEN {[world |-> g, turn_tracker |-> p.tt, step |-> "continue", actor |-> actor,
                    result |-> [kind |-> "None"]]}
             ELSE IF actor = "player"
             THEN {[world |-> g, turn_tracker |-> p.tt, step |-> "return", actor |-> actor,
                    result |-> [kind |-> "None"]]}
             ELSE {IF out.result.kind = "ok"
                   THEN [world |-> out.g, turn_tracker |-> push(p.tt, actor, out.result.delay),
                         step |-> "perform", actor |-> actor, result |-> out.result]
                   ELSE IF out.result.kind = "Impossible"
                   THEN [world |-> out.g, turn_tracker |-> p.tt,
                         step |-> "perform", actor |-> actor, result |-> out.result]
                   ELSE [world |-> out.g, turn_tracker |-> p.tt,
                         step |-> "raise", actor |-> actor, result |-> out.result] :
                   out \in AI_perform(g, actor, vis)}

\* One pass of the while loop of Engine.handle_enemy_turns: the worlds and
\* trackers it can leave, whether the loop returned or raised, and what it
\* did (step) to which actor.
handle_enemy_turns_step(g, tt, vis) ==
    IF ~is_alive(g, "player")
    THEN {[world |-> g, turn_tracker |-> tt, step |-> "return", actor |-> "None",
           result |-> [kind |-> "None"]]}
    ELSE IF tt.actor_heap = <<>>
    THEN {[world |-> g, turn_tracker |-> tt, step |-> "raise", actor |-> "None",
           result |-> [kind |-> "IndexError"]]}
    ELSE LET p == pop(tt)
             actor == p.actor
         IN  IF ~is_alive(g, actor)
             THEN {[world |-> g, turn_tracker |-> p.tt, step |-> "continue", actor |-> actor,
                    result |-> [kind |-> "None"]]}
             ELSE IF actor = "player"
             THEN {[world |-> g, turn_tracker |-> p.tt, step |-> "return", actor |-> actor,
                    result |-> [kind |-> "None"]]}
             ELSE {IF out.result.kind = "ok"
                   THEN [world |-> out.g, turn_tracker |-> push(p.tt, actor, out.result.delay),
                         step |-> "perform", actor |-> actor, result |-> out.result]
                   ELSE IF out.result.kind = "Impossible"
                   THEN [world |-> out.g, turn_tracker |-> push(p.tt, actor, 10),
                         step |-> "perform", actor |-> actor, result |-> out.result]
                   ELSE [world |-> out.g, turn_tracker |-> p.tt,
                         step |-> "raise", actor |-> actor, result |-> out.result] :
                   out \in AI_perform(g, actor, vis)}

VARIABLES
    visible,        \* game_map.visible: the set of visible tiles
    pc,             \* "input": waiting for the player; "enemy_turns": in handle_enemy_turns
    handler,        \* main()'s handler
    world,          \* the entities, the message log and engine.event_handler
    turn_tracker,   \* game_map.turn_tracker: [actor_heap, entry_counter, current_tick]
    twin_tracker,   \* harness: a second tracker fed the same calls on relabelled actors
    pushed,         \* harness: the entries pushed so far, in call order
    popped,         \* harness: the entries popped so far, in call order
    twin_popped,    \* harness: the entries the second tracker popped
    last_call       \* harness: the last call made, with its arguments

vars == <<visible, pc, handler, world, turn_tracker, twin_tracker, pushed, popped, twin_popped, last_call>>

(***************************************************************************)
(* Scheduler harness: any sequence of push and pop calls on a TurnTracker. *)
(***************************************************************************)
Elems(h) == {h[i] : i \in 1..Len(h)}

Count(h, e) == Cardinality({i \in 1..Len(h) : h[i] = e})

\* What a push call is observed to have inserted: the entry heap g holds once
\* more than heap h.
NewEntry(h, g) == CHOOSE e \in Elems(g) : Count(g, e) = Count(h, e) + 1

RelabelSeq(s) == [i \in 1..Len(s) |-> Relabel(s[i])]

InitialEntities == {<<>>, <<"player">>, <<"player", "orc">>, <<"troll", "orc">>}

TrackerInit ==
    \E es \in InitialEntities :
        /\ turn_tracker = TurnTracker_init(es)
        /\ twin_tracker = TurnTracker_init(RelabelSeq(es))
        /\ pushed = [i \in 1..Len(es) |-> <<0, i - 1, es[i]>>]
        /\ popped = <<>>
        /\ twin_popped = <<>>
        /\ last_call = [op |-> "init"]
        /\ world = InitWorld
        /\ visible = update_fov(InitWorld)
        /\ pc = "input"
        /\ handler = "MainGameEventHandler"

TrackerPush(actor, delay) ==
    /\ Len(pushed) < MaxPushes
    /\ turn_tracker' = push(turn_tracker, actor, delay)
    /\ twin_tracker' = push(twin_tracker, Relabel(actor), delay)
    /\ pushed' = Append(pushed, NewEntry(turn_tracker.actor_heap, turn_tracker'.actor_heap))
    /\ last_call' = [op |-> "push", actor |-> actor, delay |-> delay]
    /\ UNCHANGED <<popped, twin_popped, world, visible, pc, handler>>

TrackerPop ==
    /\ turn_tracker.actor_heap # <<>>
    /\ twin_tracker.actor_heap # <<>>
    /\ turn_tracker' = pop(turn_tracker).tt
    /\ twin_tracker' = pop(twin_tracker).tt
    /\ popped' = Append(popped, pop(turn_tracker).item)
    /\ twin_popped' = Append(twin_popped, pop(twin_tracker).item)
    /\ last_call' = [op |-> "pop"]
    /\ UNCHANGED <<pushed, world, visible, pc, handler>>

TrackerNext ==
    \/ \E actor \in Actors, delay \in 0..MaxDelay : TrackerPush(actor, delay)
    \/ TrackerPop

SpecTracker == TrackerInit /\ [][TrackerNext]_vars

(***************************************************************************)
(* Claims about the scheduler, checked under SpecTracker.                  *)
(***************************************************************************)
\* Lexicographic order on (due_tick, insertion_sequence).
LexLE(a, b) == a[1] < b[1] \/ (a[1] = b[1] /\ a[2] <= b[2])

\* The position of the push call that inserted entry e.
PushIndex(e) == CHOOSE k \in 1..Len(pushed) : pushed[k] = e

\* C1: entries with the same due tick are popped in the order in which they
\* were pushed, whichever actors they refer to: of two popped entries with
\* equal ticks the one popped first was pushed first, and no entry still
\* queued was pushed before a popped entry of the same tick.
C1_FifoTieBreak ==
    /\ \A i, j \in 1..Len(popped) :
          (i < j /\ popped[i][1] = popped[j][1])
              => PushIndex(popped[i]) < PushIndex(popped[j])
    /\ \A i \in 1..Len(popped) : \A e \in Elems(turn_tracker.actor_heap) :
          popped[i][1] = e[1] => PushIndex(popped[i]) < PushIndex(e)

\* Three entries pushed at one tick were popped in push order although the
\* actors' own order is the reverse.
C1_Witness ==
    /\ Len(popped) = 3
    /\ \A i \in 1..3 : popped[i][1] = 1
    /\ popped[1][3] = "troll" /\ popped[2][3] = "orc" /\ popped[3][3] = "player"

\* C2: after every pop current_tick is the due tick of the entry popped, and
\* no call (push with a delay >= 0, or pop) ever decreases current_tick.
C2_CurrentTickMonotone ==
    [][ /\ turn_tracker'.current_tick >= turn_tracker.current_tick
        /\ last_call'.op = "pop"
              => turn_tracker'.current_tick = popped'[Len(popped')][1] ]_vars

\* Two pops at increasing ticks have happened.
C2_Witness ==
    /\ Len(popped) >= 2
    /\ popped[1][1] < popped[2][1]
    /\ turn_tracker.current_tick = popped[2][1]
    /\ last_call.op = "pop"

\* C3: push(actor, delay) adds exactly one entry, with due tick
\* current_tick + delay, for that actor, and with an insertion sequence above
\* that of every entry pushed before; pop removes exactly the entry that is
\* least in the lexicographic order on (due_tick, insertion_sequence).
C3_PushPopContract ==
    [][ LET h == turn_tracker.actor_heap
            g == turn_tracker'.actor_heap
        IN  /\ last_call'.op = "push" =>
                 \E e \in Elems(g) :
                    /\ e[1] = turn_tracker.current_tick + last_call'.delay
                    /\ e[3] = last_call'.actor
                    /\ \A k \in 1..Len(pushed) : pushed[k][2] < e[2]
                    /\ Len(g) = Len(h) + 1
                    /\ \A x \in Elems(g) :
                          Count(g, x) = Count(h, x) + (IF x = e THEN 1 ELSE 0)
                    /\ turn_tracker'.current_tick = turn_tracker.current_tick
            /\ last_call'.op = "pop" =>
                 \E m \in Elems(h) :
                    /\ \A x \in Elems(h) : LexLE(m, x)
                    /\ Len(g) = Len(h) - 1
                    /\ \A x \in Elems(h) :
                          Count(g, x) = Count(h, x) - (IF x = m THEN 1 ELSE 0)
                    /\ popped'[Len(popped')] = m ]_vars

\* The entry pushed second, at an earlier tick, was popped first.
C3_Witness ==
    /\ Len(popped) >= 1 /\ Len(pushed) >= 2
    /\ popped[1] = pushed[2]
    /\ pushed[2][1] < pushed[1][1]

\* C4: two runs that receive the same push and pop calls with the same
\* delays, on actors that differ in every property the actors have (here
\* their order), pop the same calls' entries in the same order.
C4_Deterministic ==
    /\ Len(popped) = Len(twin_popped)
    /\ \A i \in 1..Len(popped) :
          /\ twin_popped[i][1] = popped[i][1]
          /\ twin_popped[i][2] = popped[i][2]
          /\ twin_popped[i][3] = Relabel(popped[i][3])
    /\ twin_tracker.current_tick = turn_tracker.current_tick

\* Both runs popped two entries of one tick whose actors are ordered one way
\* in the first run and the other way in the second.
C4_Witness ==
    /\ Len(popped) = 2
    /\ popped[1][1] = popped[2][1]
    /\ popped[1][3] = "troll" /\ popped[2][3] = "player"
    /\ twin_popped[1][3] = "player" /\ twin_popped[2][3] = "troll"

\* C33: every entry in the queue has a due tick greater than or equal to
\* current_tick, after any sequence of pops and of pushes with delays >= 0,
\* the pushes with delay 0 included.
C33_NoEntryInThePast ==
    \A i \in 1..Len(turn_tracker.actor_heap) :
        turn_tracker.actor_heap[i][1] >= turn_tracker.current_tick

\* After a pop has moved current_tick forward, a push with delay 0 has
\* queued an entry due at current_tick itself, next to one due later.
C33_Witness ==
    /\ turn_tracker.current_tick > 0
    /\ last_call.op = "push"
    /\ last_call.delay = 0
    /\ \E i, j \in 1..Len(turn_tracker.actor_heap) :
          /\ turn_tracker.actor_heap[i][1] = turn_tracker.current_tick
          /\ turn_tracker.actor_heap[j][1] > turn_tracker.current_tick

(***************************************************************************)
(* Fighter harness: any sequence of writes of any value to any actor's hp. *)
(***************************************************************************)
harness_vars == <<twin_tracker, pushed, popped, twin_popped>>

FighterInit ==
    /\ world = InitWorld
    /\ visible = update_fov(InitWorld)
    /\ pc = "input"
    /\ handler = "MainGameEventHandler"
    /\ turn_tracker = TurnTracker_init(<<"player", "orc", "troll">>)
    /\ twin_tracker = turn_tracker
    /\ pushed = <<>>
    /\ popped = <<>>
    /\ twin_popped = <<>>
    /\ last_call = [op |-> "init"]

HpWrite(a, value) ==
    /\ world' = hp_setter(world, a, value)
    /\ last_call' = [op |-> "hp", actor |-> a, value |-> value]
    /\ UNCHANGED <<turn_tracker, harness_vars, visible, pc, handler>>

FighterNext == \E a \in Actors, value \in (0 - 2)..(MaxHp + 2) : HpWrite(a, value)

SpecFighter == FighterInit /\ [][FighterNext]_vars


(***************************************************************************)
(* The game: the player's turns and the activation loop.                   *)
(***************************************************************************)
\* The world is built with the player and the monsters, each pushed at tick
\* 0 in that order, and the field of view is computed once.
Init ==
    /\ world = InitWorld
    /\ visible = update_fov(InitWorld)
    /\ pc = "input"
    /\ handler = "MainGameEventHandler"
    /\ turn_tracker = TurnTracker_init(<<"player", "orc", "troll">>)
    /\ twin_tracker = turn_tracker
    /\ pushed = <<>>
    /\ popped = <<>>
    /\ twin_popped = <<>>
    /\ last_call = [op |-> "init"]

\* EventHandler.handle_action(action), up to the call of handle_enemy_turns.
PlayerTurn(action) ==
    /\ pc = "input"
    /\ handler = "MainGameEventHandler"
    /\ turn_tracker.current_tick < MaxTick
    /\ \E out \in Action_perform(world, "player", action) :
          LET r == handle_action(world, turn_tracker, out)
          IN  /\ world' = r.world
              /\ turn_tracker' = r.turn_tracker
              /\ pc' = r.pc
              /\ last_call' = [op |-> "handle_action", action |-> action, result |-> out.result]
    /\ UNCHANGED <<visible, handler, harness_vars>>

\* One pass of the loop of handle_enemy_turns; when the loop returns, the
\* rest of handle_action (update_fov) and of handle_events (the next
\* handler); when it raises, main() logs the exception.
EnemyTurn ==
    /\ pc = "enemy_turns"
    /\ \E r \in handle_enemy_turns_step(world, turn_tracker, visible) :
          /\ turn_tracker' = r.turn_tracker
          /\ last_call' = [op |-> "handle_enemy_turns", step |-> r.step,
                           actor |-> r.actor, result |-> r.result]
          /\ IF r.step = "return"
             THEN /\ world' = r.world
                  /\ visible' = update_fov(r.world)
                  /\ handler' = next_handler(r.world)
                  /\ pc' = "input"
             ELSE IF r.step = "raise"
             THEN /\ world' = log_traceback(r.world, r.result.kind)
                  /\ pc' = "input"
                  /\ UNCHANGED <<visible, handler>>
             ELSE /\ world' = r.world
                  /\ UNCHANGED <<visible, handler, pc>>
    /\ UNCHANGED harness_vars

Next ==
    \/ \E action \in PlayerActions : PlayerTurn(action)
    \/ EnemyTurn

Spec == Init /\ [][Next]_vars

(***************************************************************************)
(* Claims about the actions and the player's turn, checked under Spec.     *)
(***************************************************************************)
\* The living actors standing on (x, y).
ActorsOn(g, x, y) ==
    {b \in Actors : is_alive(g, b) /\ g.actor[b].x = x /\ g.actor[b].y = y}

\* Whether some entity that blocks movement stands on (x, y).
BlockerOn(g, x, y) ==
    \/ \E b \in Actors : g.actor[b].blocks_movement /\ g.actor[b].x = x /\ g.actor[b].y = y
    \/ \E i \in Items : /\ g.item[i].parent = "game_map" /\ g.item[i].blocks_movement
                        /\ g.item[i].x = x /\ g.item[i].y = y

\* C5: when a player action fails with Impossible the scheduler is left as
\* it was (no push, same current_tick and entry counter), control stays with
\* the player so that no other actor is activated, and the failure message
\* is added to the message log.
C5_ImpossibleLeavesScheduler ==
    [][ (last_call'.op = "handle_action" /\ last_call'.result.kind = "Impossible") =>
          /\ turn_tracker' = turn_tracker
          /\ pc' = "input" /\ handler' = handler /\ visible' = visible
          /\ \A a \in Actors \ {"player"} : world'.actor[a] = world.actor[a]
          /\ world'.message_log =
                add_message(world.message_log,
                            [kind |-> "Impossible", msg |-> last_call'.result.msg]) ]_vars

\* After turns have passed, a player action has failed with Impossible.
C5_Witness ==
    /\ last_call.op = "handle_action"
    /\ last_call.result.kind = "Impossible"
    /\ turn_tracker.current_tick > 0
    /\ world.message_log[Len(world.message_log)].kind = "Impossible"

\* C6: Move(dx, dy) fails with Impossible and changes nothing when the
\* destination is out of bounds, is not walkable or holds a
\* movement-blocking entity; otherwise it sets the position to the old
\* position plus (dx, dy), changes nothing else and returns move_delay.
C6_MoveContract ==
    \A a \in Actors, d \in Directions :
        LET x == world.actor[a].x + d[1]
            y == world.actor[a].y + d[2]
            outs == MovementAction_perform(world, a, d[1], d[2])
        IN  /\ outs # {}
            /\ IF <<x, y>> \notin Tiles \/ <<x, y>> \in Walls \/ BlockerOn(world, x, y)
               THEN \A o \in outs : o.result.kind = "Impossible" /\ o.g = world
               ELSE \A o \in outs :
                        /\ o.result = [kind |-> "ok", delay |-> move_delay(world, a)]
                        /\ o.g = [world EXCEPT !.actor[a].x = x, !.actor[a].y = y]

\* The player, having moved off its first tile, has bumped into the pillar
\* and stayed where it was.
C6_Witness ==
    /\ last_call.op = "handle_action"
    /\ last_call.action.type = "BumpAction"
    /\ last_call.result.kind = "Impossible"
    /\ last_call.result.msg = "There's a wall there"
    /\ <<world.actor["player"].x, world.actor["player"].y>> # <<0, 0>>

\* The damage an actor's attack rolls up to: the wielded item's melee damage,
\* or the unarmed damage when nothing is wielded.
MeleeDamageOf(g, a) ==
    IF g.inventory[a].wielded_key # "None" /\ HasKey(g.inventory[a], g.inventory[a].wielded_key)
    THEN g.item[StackAt(g.inventory[a], g.inventory[a].wielded_key)[1]].melee_damage
    ELSE g.actor[a].unarmed_damage

\* C7: MeleeAttack by a living actor fails with Impossible when no actor is
\* at the destination; when one is, it never fails, returns melee_delay, and
\* the target's hp becomes max(0, hp - max(0, roll)) for a roll
\* random(1..melee_damage) - random(0..defense), within [0, max_hp].
C7_MeleeContract ==
    \A a \in Actors, d \in Directions :
        is_alive(world, a) =>
            LET x == world.actor[a].x + d[1]
                y == world.actor[a].y + d[2]
                outs == MeleeAction_perform(world, a, d[1], d[2])
            IN  /\ outs # {}
                /\ IF ActorsOn(world, x, y) = {}
                   THEN \A o \in outs : o.result.kind = "Impossible" /\ o.g = world
                   ELSE \A o \in outs :
                            /\ o.result = [kind |-> "ok", delay |-> melee_delay(world, a)]
                            /\ \E b \in ActorsOn(world, x, y) :
                               \E r1 \in 1..MeleeDamageOf(world, a) :
                               \E r2 \in 0..(world.actor[b].base_defense) :
                                  /\ o.g.actor[b].hp = Max(0, world.actor[b].hp - Max(0, r1 - r2))
                                  /\ 0 <= o.g.actor[b].hp
                                  /\ o.g.actor[b].hp <= o.g.actor[b].max_hp

\* C8: Bump(dx, dy) has exactly the outcomes (delay, world left, exception)
\* of MeleeAttack(dx, dy) when a living actor occupies the destination, and
\* of Move(dx, dy) otherwise.
C8_BumpForwards ==
    \A a \in Actors, d \in Directions :
        BumpAction_perform(world, a, d[1], d[2]) =
            IF ActorsOn(world, world.actor[a].x + d[1], world.actor[a].y + d[2]) # {}
            THEN MeleeAction_perform(world, a, d[1], d[2])
            ELSE MovementAction_perform(world, a, d[1], d[2])

\* The player's Bump has resolved to an attack, after an earlier Bump
\* resolved to a move.
C8_Witness ==
    /\ last_call.op = "handle_action"
    /\ last_call.action.type = "BumpAction"
    /\ last_call.result.kind = "ok"
    /\ Len(world.message_log) > 0
    /\ world.message_log[Len(world.message_log)].kind = "attacks"
    /\ world.message_log[Len(world.message_log)].attacker = world.actor["player"].name
    /\ <<world.actor["player"].x, world.actor["player"].y>> # <<0, 0>>

(***************************************************************************)
(* Claims about the Fighter, checked under SpecFighter.                    *)
(***************************************************************************)
\* The number of "remains of" prefixes of an actor's name: how many times
\* death renamed it.
Renames(g, a) == Len(g.actor[a].name) - 1

DeathMessage(g, a) ==
    IF a = "player" THEN [kind |-> "You died!"]
    ELSE [kind |-> "is dead!", name |-> g.actor[a].name]

\* C9: after any sequence of hp writes with any integer values, every
\* actor's hp is within [0, max_hp].
C9_HpInRange ==
    \A a \in Actors : 0 <= world.actor[a].hp /\ world.actor[a].hp <= world.actor[a].max_hp

\* A write below 0 and a write above max_hp have both been clamped.
C9_Witness ==
    /\ last_call.op = "hp" /\ last_call.value > MaxHp
    /\ world.actor[last_call.actor].hp = MaxHp
    /\ \E b \in Actors : world.actor[b].hp = 0 /\ b # last_call.actor

\* C10: death fires exactly once per actor.  A write that brings a living
\* actor's hp to 0 makes it dead and applies the death effects (one rename,
\* one death message); a write on a dead actor changes nothing but its hp,
\* so no actor is ever renamed twice.
C10_DeathOnce ==
    [][ \A a \in Actors :
          last_call'.op = "hp" /\ last_call'.actor = a =>
            /\ (is_alive(world, a) /\ world'.actor[a].hp = 0) =>
                  /\ ~is_alive(world', a)
                  /\ ~world'.actor[a].blocks_movement
                  /\ world'.actor[a].name = <<"remains of">> \o world.actor[a].name
                  /\ world'.actor[a].char = "%"
                  /\ world'.message_log = add_message(world.message_log, DeathMessage(world, a))
            /\ ~is_alive(world, a) =>
                  /\ world' = [world EXCEPT !.actor[a].hp = world'.actor[a].hp]
            /\ Renames(world', a) <= 1
            /\ Renames(world', a) = 1 <=> ~is_alive(world', a) ]_vars

\* A dead actor's hp has been written at 0 again.
C10_Witness ==
    /\ last_call.op = "hp" /\ last_call.value <= 0
    /\ Renames(world, last_call.actor) = 1
    /\ world.actor[last_call.actor].hp = 0
    /\ Len(world.message_log) >= 1
    /\ world.message_log[Len(world.message_log)] # DeathMessage([world EXCEPT !.actor[last_call.actor].name = Tail(@)], last_call.actor)

(***************************************************************************)
(* AI harness: the monsters' activations (with the moves and attacks they  *)
(* make), confusion cast on a monster and writes of hp, in any order; the  *)
(* player stands still.                                                    *)
(***************************************************************************)
\* The confusion effect of a consumable on a living target: the target's
\* behavior is wrapped in a ConfusedEnemy that remembers it.
ConfusionConsumable_activate(g, target, number_of_turns) ==
    [g EXCEPT !.actor[target].ai = NewConfusedEnemy(@, number_of_turns),
              !.message_log = add_message(@, [kind |-> "is confused", name |-> g.actor[target].name])]

\* How many ConfusedEnemy wrap the behavior ai.
RECURSIVE Nesting(_)
Nesting(ai) == IF ai.kind = "ConfusedEnemy" THEN 1 + Nesting(ai.previous_ai) ELSE 0

\* The monsters the confusion is cast on.
Confusable == {"orc"}

AIConfuse(a, n) ==
    /\ is_alive(world, a)
    /\ Nesting(world.actor[a].ai) < MaxNest
    /\ world' = ConfusionConsumable_activate(world, a, n)
    /\ last_call' = [op |-> "confuse", actor |-> a, value |-> n]
    /\ UNCHANGED <<turn_tracker, harness_vars, visible, pc, handler>>

\* actor.ai.perform() as the loop of handle_enemy_turns calls it.
AIActivate(a) ==
    /\ is_alive(world, "player")
    /\ is_alive(world, a)
    /\ \E out \in AI_perform(world, a, visible) :
          /\ world' = out.g
          /\ last_call' = [op |-> "ai_perform", actor |-> a, result |-> out.result]
    /\ UNCHANGED <<turn_tracker, harness_vars, visible, pc, handler>>

AINext ==
    \/ \E a \in Confusable, n \in (0 - 1)..MaxTurns : AIConfuse(a, n)
    \/ \E a \in Actors \ {"player"} : AIActivate(a)
    \/ \E a \in Actors, value \in {0, MaxHp} : HpWrite(a, value)

SpecAI == Init /\ [][AINext]_vars

\* C11: death is irreversible.  In every step of a run of activations,
\* actions, confusions and hp writes, an actor that is dead stays
\* dead (no behavior) and non-blocking.
C11_DeathIrreversible ==
    [][ \A a \in Actors :
          ~is_alive(world, a) =>
              /\ ~is_alive(world', a)
              /\ ~world'.actor[a].blocks_movement ]_vars

\* A dead monster has had its hp written up to max_hp while another monster
\* is confused.
C11_Witness ==
    /\ last_call.op = "hp" /\ last_call.value = MaxHp
    /\ last_call.actor # "player"
    /\ ~is_alive(world, last_call.actor)
    /\ world.actor[last_call.actor].hp = MaxHp
    /\ \E b \in Actors : is_alive(world, b) /\ world.actor[b].ai.kind = "ConfusedEnemy"

(***************************************************************************)
(* Claims about the activation loop, checked under Spec.                   *)
(***************************************************************************)
\* C12: once the player has died the loop activates no further actor.  The
\* only step taken while the player is dead is the return of the loop, with
\* nothing popped and nothing changed, and a later call of the loop would
\* again return at once with the world and the tracker as they are.
C12_PlayerDeathEndsLoop ==
    [][ ~is_alive(world, "player") =>
          /\ last_call'.op = "handle_enemy_turns"
          /\ last_call'.step = "return" /\ last_call'.actor = "None"
          /\ world' = world
          /\ turn_tracker' = turn_tracker
          /\ handle_enemy_turns_step(world', turn_tracker', visible') =
                {[world |-> world', turn_tracker |-> turn_tracker', step |-> "return",
                  actor |-> "None", result |-> [kind |-> "None"]]} ]_vars

\* The loop has returned after the player's death while a living monster is
\* still queued.
C12_Witness ==
    /\ ~is_alive(world, "player")
    /\ last_call.op = "handle_enemy_turns" /\ last_call.step = "return"
    /\ pc = "input" /\ handler = "GameOverEventHandler"
    /\ \E i \in 1..Len(turn_tracker.actor_heap) :
          /\ turn_tracker.actor_heap[i][3] # "player"
          /\ is_alive(world, turn_tracker.actor_heap[i][3])

\* The number of entries of actor a in the queue.
EntriesOf(tt, a) == Cardinality({i \in 1..Len(tt.actor_heap) : tt.actor_heap[i][3] = a})

\* C13: a non-player actor that is dead when popped is discarded.  The pass
\* that pops it changes nothing in the world (no AI, no action), removes its
\* entry and pushes nothing; and a dead monster that is out of the queue is
\* never in it again.
C13_DeadDiscarded ==
    [][ /\ (last_call'.op = "handle_enemy_turns" /\ last_call'.step = "continue") =>
              /\ last_call'.actor # "player"
              /\ ~is_alive(world, last_call'.actor)
              /\ world' = world
              /\ turn_tracker'.entry_counter = turn_tracker.entry_counter
              /\ Len(turn_tracker'.actor_heap) = Len(turn_tracker.actor_heap) - 1
              /\ EntriesOf(turn_tracker', last_call'.actor) = 0
        /\ \A a \in Actors \ {"player"} :
              (~is_alive(world, a) /\ EntriesOf(turn_tracker, a) = 0) =>
                  EntriesOf(turn_tracker', a) = 0 ]_vars

\* A monster killed by the player has been popped and discarded, and the
\* game has gone on to a later tick.
C13_Witness ==
    \E a \in Actors \ {"player"} :
        /\ ~is_alive(world, a)
        /\ EntriesOf(turn_tracker, a) = 0
        /\ is_alive(world, "player")
        /\ turn_tracker.current_tick > 0
        /\ pc = "input"

\* C14: a living non-player actor is pushed back after its activation, at
\* current_tick + 10 when the activation failed with Impossible and at
\* current_tick + the delay returned when it succeeded, and the loop goes on
\* with the next entry.
C14_RepushAfterActivation ==
    [][ (last_call'.op = "handle_enemy_turns" /\ last_call'.step = "perform") =>
          LET a == last_call'.actor
              delay == IF last_call'.result.kind = "Impossible" THEN 10
                       ELSE last_call'.result.delay
          IN  /\ last_call'.result.kind \in {"ok", "Impossible"}
              /\ a # "player" /\ is_alive(world, a)
              /\ turn_tracker'.current_tick = turn_tracker.actor_heap[1][1]
              /\ turn_tracker'.entry_counter = turn_tracker.entry_counter + 1
              /\ EntriesOf(turn_tracker', a) = 1
              /\ \E i \in 1..Len(turn_tracker'.actor_heap) :
                    turn_tracker'.actor_heap[i] =
                        <<turn_tracker'.current_tick + delay, turn_tracker.entry_counter, a>>
              /\ Len(turn_tracker'.actor_heap) = Len(turn_tracker.actor_heap)
              /\ pc' = "enemy_turns" ]_vars

\* At a tick after 0 a monster's activation has failed with Impossible and
\* the monster is queued 10 ticks later.
C14_Witness ==
    /\ last_call.op = "handle_enemy_turns" /\ last_call.step = "perform"
    /\ last_call.result.kind = "Impossible"
    /\ turn_tracker.current_tick > 0
    /\ \E i \in 1..Len(turn_tracker.actor_heap) :
          /\ turn_tracker.actor_heap[i][3] = last_call.actor
          /\ turn_tracker.actor_heap[i][1] = turn_tracker.current_tick + 10

\* C15: the loop returns as soon as the popped actor is the player.  The
\* pass that pops the player changes nothing in the world (no AI is invoked,
\* no other actor is activated), takes the player's entry out without
\* pushing, leaves current_tick at that entry's due tick and hands control
\* back; the player's own behavior is never run.
C15_ReturnsOnPlayer ==
    [][ /\ (last_call'.op = "handle_enemy_turns" /\ last_call'.step = "return"
                /\ last_call'.actor = "player") =>
              /\ turn_tracker.actor_heap[1][3] = "player"
              /\ \A i \in 1..Len(turn_tracker.actor_heap) :
                    LexLE(turn_tracker.actor_heap[1], turn_tracker.actor_heap[i])
              /\ world' = world
              /\ turn_tracker'.entry_counter = turn_tracker.entry_counter
              /\ Len(turn_tracker'.actor_heap) = Len(turn_tracker.actor_heap) - 1
              /\ EntriesOf(turn_tracker', "player") = EntriesOf(turn_tracker, "player") - 1
              /\ turn_tracker'.current_tick = turn_tracker.actor_heap[1][1]
              /\ pc' = "input"
        /\ is_alive(world', "player") =>
              world'.actor["player"].ai = [kind |-> "HostileEnemy", path |-> <<>>] ]_vars

\* After the monsters acted, the loop has returned on the player's entry at
\* a tick after 0 with a living monster queued behind it.
C15_Witness ==
    /\ last_call.op = "handle_enemy_turns" /\ last_call.step = "return"
    /\ last_call.actor = "player"
    /\ turn_tracker.current_tick > 0
    /\ pc = "input"
    /\ \E i \in 1..Len(turn_tracker.actor_heap) :
          /\ turn_tracker.actor_heap[i][3] # "player"
          /\ is_alive(world, turn_tracker.actor_heap[i][3])
          /\ turn_tracker.actor_heap[i][1] >= turn_tracker.current_tick

\* C16: in a game that starts with the player and the monsters queued and
\* alternates the player's actions, successful or failed, with the
\* activation loop, pop is never called on an empty queue: whenever the loop
\* is about to pop, the queue holds an entry of the player, and no pass of
\* the loop has raised IndexError.
C16_PopNeverEmpty ==
    /\ (pc = "enemy_turns" /\ is_alive(world, "player")) =>
          /\ turn_tracker.actor_heap # <<>>
          /\ EntriesOf(turn_tracker, "player") >= 1
    /\ last_call.op = "handle_enemy_turns" => last_call.result.kind # "IndexError"

\* The loop is about to pop at a tick after 0, a monster being dead and out
\* of the queue.
C16_Witness ==
    /\ pc = "enemy_turns"
    /\ is_alive(world, "player")
    /\ turn_tracker.current_tick > 0
    /\ \E a \in Actors \ {"player"} : ~is_alive(world, a) /\ EntriesOf(turn_tracker, a) = 0

(***************************************************************************)
(* Claims about the AI, checked under SpecAI.                              *)
(***************************************************************************)
\* The 8 compass directions.
Compass == {d \in {0 - 1, 0, 1} \X {0 - 1, 0, 1} : d # <<0, 0>>}

\* C17: an activation of a Confused behavior with turns_remaining > 0 emits
\* a Bump in one of the 8 compass directions and leaves turns_remaining one
\* lower, whether the Bump succeeded or failed; with turns_remaining <= 0 it
\* emits no action, returns delay 0 and sets the actor's behavior to exactly
\* the stored previous behavior.  So a confusion of n > 0 turns bumps on its
\* first n activations and restores on activation n + 1, and one of n <= 0
\* turns restores on the first.
C17_ConfusedCountsDown ==
    [][ (last_call'.op = "ai_perform"
            /\ world.actor[last_call'.actor].ai.kind = "ConfusedEnemy") =>
          LET a == last_call'.actor
              ai == world.actor[a].ai
              counted == [world EXCEPT !.actor[a].ai.turns_remaining = @ - 1]
          IN  IF ai.turns_remaining > 0
              THEN /\ world'.actor[a].ai = [ai EXCEPT !.turns_remaining = @ - 1]
                   /\ \E d \in Compass :
                         [g |-> world', result |-> last_call'.result]
                             \in BumpAction_perform(counted, a, d[1], d[2])
              ELSE /\ last_call'.result = [kind |-> "ok", delay |-> 0]
                   /\ world'.actor[a].ai = ai.previous_ai
                   /\ world' = [world EXCEPT !.actor[a].ai = ai.previous_ai,
                                             !.message_log = world'.message_log] ]_vars

\* A confused monster has been given back its Hostile behavior with the path
\* that was cached when it was confused.
C17_Witness ==
    /\ last_call.op = "ai_perform"
    /\ last_call.result = [kind |-> "ok", delay |-> 0]
    /\ world.actor[last_call.actor].ai.kind = "HostileEnemy"
    /\ world.actor[last_call.actor].ai.path # <<>>
    /\ world.message_log[Len(world.message_log)].kind = "is no longer confused"

\* C18: how a Hostile activation chooses its action.  With its own tile
\* visible and the player at Chebyshev distance at most 1 it performs
\* MeleeAttack toward the player and leaves the cached path untouched; else,
\* with its tile visible, it replaces the cached path by a freshly computed
\* one; then a non-empty cached path loses its first step and the actor
\* performs Move toward that step, and with an empty cached path it performs
\* Wait (delay 10).  Checked for every living Hostile monster with the
\* visible set as it is and with nothing visible.
C18_HostileChoice ==
    \A a \in Actors \ {"player"} :
        (is_alive(world, a) /\ world.actor[a].ai.kind = "HostileEnemy") =>
            \A vis \in {visible, {}} :
                LET x == world.actor[a].x
                    y == world.actor[a].y
                    px == world.actor["player"].x
                    py == world.actor["player"].y
                    outs == HostileEnemy_perform(world, a, vis)
                    Follow(cached) ==
                        IF cached # <<>>
                        THEN MovementAction_perform(
                                 [world EXCEPT !.actor[a].ai.path = Tail(cached)], a,
                                 cached[1][1] - x, cached[1][2] - y)
                        ELSE {[g |-> [world EXCEPT !.actor[a].ai.path = cached],
                               result |-> [kind |-> "ok", delay |-> 10]]}
                IN  IF <<x, y>> \in vis /\ Abs(px - x) <= 1 /\ Abs(py - y) <= 1
                    THEN /\ outs = MeleeAction_perform(world, a, px - x, py - y)
                         /\ \A o \in outs : o.g.actor[a].ai = world.actor[a].ai
                    ELSE IF <<x, y>> \in vis
                    THEN outs = UNION {Follow(p) : p \in get_path_to(world, a, px, py)}
                    ELSE outs = Follow(world.actor[a].ai.path)

\* A living Hostile monster stands on a visible tile, more than one step
\* from the player, with a cached path, after an activation.
C18_Witness ==
    /\ last_call.op = "ai_perform"
    /\ is_alive(world, "player")
    /\ \E a \in Actors \ {"player"} :
          /\ is_alive(world, a)
          /\ world.actor[a].ai.kind = "HostileEnemy"
          /\ world.actor[a].ai.path # <<>>
          /\ <<world.actor[a].x, world.actor[a].y>> \in visible
          /\ Max(Abs(world.actor["player"].x - world.actor[a].x),
                 Abs(world.actor["player"].y - world.actor[a].y)) > 1

\* C19: when the sub-action of an AI activation fails with Impossible the
\* activation is a no-op for that turn: the loop goes on, and the world and
\* the actor (position, hp, cached path, turns_remaining) are as they were
\* before the activation.
C19_FailedActivationNoOp ==
    [][ (last_call'.op = "handle_enemy_turns" /\ last_call'.step = "perform"
            /\ last_call'.result.kind = "Impossible") =>
          /\ pc' = "enemy_turns"
          /\ world' = world ]_vars

(***************************************************************************)
(* Inventory harness: the player, hurt or not, with an inventory of a small *)
(* capacity, stands on a tile that holds two health potions and a          *)
(* lightning scroll, and picks up, drops, wields, wears, quaffs and waits; *)
(* nobody moves.                                                           *)
(***************************************************************************)
\* The world with Inventory(capacity) for the player, the player at hp hit
\* points and every item spawned on the player's tile.
InventoryWorld(capacity, hp) ==
    [InitWorld EXCEPT !.inventory["player"] = NewInventory(capacity),
                      !.actor["player"].hp = hp,
                      !.item["potion"].x = 0,
                      !.item["potion2"].parent = "game_map",
                      !.item["scroll"].parent = "game_map",
                      !.entities = @ \o <<"potion2", "scroll">>]

\* The keys the player presses in the inventory menus: every key an
\* inventory of these capacities can hold, and one more.
InventoryKeys == {ALL_KEYS[j] : j \in 1..(MaxCapacity + 1)}

InventoryActions ==
    {[type |-> "WaitAction", dx |-> 0, dy |-> 0, item_key |-> "None"],
     [type |-> "PickupAction", dx |-> 0, dy |-> 0, item_key |-> "None"]}
    \cup {[type |-> t, dx |-> 0, dy |-> 0, item_key |-> k] :
             t \in {"DropItem", "WieldAction", "QuaffAction", "WearAction"},
             k \in InventoryKeys}

InventoryInit ==
    /\ \E capacity \in 0..MaxCapacity, hp \in 1..MaxHp : world = InventoryWorld(capacity, hp)
    /\ visible = update_fov(InitWorld)
    /\ pc = "input"
    /\ handler = "MainGameEventHandler"
    /\ turn_tracker = TurnTracker_init(<<"player", "orc", "troll">>)
    /\ twin_tracker = turn_tracker
    /\ pushed = <<>>
    /\ popped = <<>>
    /\ twin_popped = <<>>
    /\ last_call = [op |-> "init"]

\* The player's action as handle_action resolves it, and update_fov when it
\* succeeded.
InventoryAct(action) ==
    /\ \E out \in Action_perform(world, "player", action) :
          LET r == handle_action(world, turn_tracker, out)
          IN  /\ world' = r.world
              /\ visible' = IF out.result.kind = "ok" THEN update_fov(r.world) ELSE visible
              /\ last_call' = [op |-> "handle_action", action |-> action, result |-> out.result]
    /\ UNCHANGED <<turn_tracker, harness_vars, pc, handler>>

InventoryNext == \E action \in InventoryActions : InventoryAct(action)

SpecInventory == InventoryInit /\ [][InventoryNext]_vars

\* C20: PickUp of an item whose name matches a stack of the inventory
\* succeeds, the item joining that stack, even when the number of occupied
\* keys equals the capacity; PickUp fails with 'inventory is full' only when
\* the capacity is exhausted and the item cannot stack.
C20_PickupStacks ==
    LET inv == world.inventory["player"]
        Here(i) == /\ world.item[i].x = world.actor["player"].x
                   /\ world.item[i].y = world.actor["player"].y
        here == SelectSeq(game_map_items(world), Here)
        outs == PickupAction_perform(world, "player")
    IN  here # <<>> =>
            LET item == here[1]
                stacks == {k \in 1..Len(inv.items) :
                              world.item[inv.items[k].stack[1]].name = world.item[item].name}
                Holds(g, k) == \E j \in 1..Len(g.inventory["player"].items[k].stack) :
                                  g.inventory["player"].items[k].stack[j] = item
            IN  /\ outs # {}
                /\ IF stacks # {}
                   THEN \A o \in outs :
                            /\ o.result.kind = "ok"
                            /\ Len(o.g.inventory["player"].items) = Len(inv.items)
                            /\ \E k \in stacks : Holds(o.g, k)
                   ELSE IF Len(inv.items) >= inv.capacity
                   THEN \A o \in outs : o.result.kind = "Impossible" /\ o.g = world
                   ELSE \A o \in outs :
                            /\ o.result.kind = "ok"
                            /\ Len(o.g.inventory["player"].items) = Len(inv.items) + 1
                            /\ Holds(o.g, Len(inv.items) + 1)

(***************************************************************************)
(* Claims about the inventory, checked under SpecInventory.                *)
(***************************************************************************)
\* The items lying on actor a's tile, in the order of game_map.entities.
ItemsHere(g, a) ==
    LET Here(i) == g.item[i].x = g.actor[a].x /\ g.item[i].y = g.actor[a].y
    IN  SelectSeq(game_map_items(g), Here)

\* The names of the stacks of an inventory.
StackNames(g, inv) == {g.item[inv.items[k].stack[1]].name : k \in 1..Len(inv.items)}

\* C21: after any sequence of PickUp, Drop and Quaff actions the number of
\* occupied keys is at most the capacity; picking up an item of a name the
\* inventory does not hold when capacity keys are occupied fails with
\* Impossible and leaves the inventory and the world unchanged (so an
\* inventory of capacity 0 never holds an item).
C21_CapacityRespected ==
    LET inv == world.inventory["player"]
        here == ItemsHere(world, "player")
    IN  /\ Len(inv.items) <= inv.capacity
        /\ (inv.capacity = 0 => inv.items = <<>>)
        /\ ( /\ here # <<>>
             /\ Len(inv.items) = inv.capacity
             /\ world.item[here[1]].name \notin StackNames(world, inv) )
           => \A o \in PickupAction_perform(world, "player") :
                  o.result.kind = "Impossible" /\ o.g = world

\* With every key of a non-empty inventory occupied, the player has been
\* refused an item of another name that lies on the tile.
C21_Witness ==
    LET inv == world.inventory["player"]
        here == ItemsHere(world, "player")
    IN  /\ last_call.op = "handle_action"
        /\ last_call.action.type = "PickupAction"
        /\ last_call.result.kind = "Impossible"
        /\ inv.capacity > 0
        /\ Len(inv.items) = inv.capacity
        /\ here # <<>>
        /\ world.item[here[1]].name \notin StackNames(world, inv)

\* C22: after any sequence of PickUp, Wield, Drop and Quaff actions,
\* wielded_key is unset or is a key of the inventory's items: dropping the
\* wielded stack or consuming its last unit clears wielded_key.
C22_WieldedKeyPresent ==
    LET inv == world.inventory["player"]
    IN  inv.wielded_key = "None" \/ HasKey(inv, inv.wielded_key)

\* The inventory's items without the stack at key.
WithoutKey(inv, key) ==
    LET Other(e) == e.key # key IN SelectSeq(inv.items, Other)

\* How often entity e occurs in game_map.entities.
Occurrences(g, e) == Cardinality({j \in 1..Len(g.entities) : g.entities[j] = e})

\* C23: Drop(key) with a key present removes the whole stack from the
\* inventory and places every item of the stack in the world at the actor's
\* position, returning delay 10; with an absent key it fails with a lookup
\* error and changes neither the inventory nor the world nor the scheduler.
C23_DropContract ==
    \A key \in InventoryKeys :
        LET inv == world.inventory["player"]
            outs == DropItem_perform(world, "player", key)
        IN  /\ outs # {}
            /\ IF HasKey(inv, key)
               THEN \A o \in outs :
                        /\ o.result = [kind |-> "ok", delay |-> 10]
                        /\ o.g.inventory["player"].items = WithoutKey(inv, key)
                        /\ o.g.actor = world.actor
                        /\ \A j \in 1..Len(StackAt(inv, key)) :
                               LET i == StackAt(inv, key)[j]
                               IN  /\ o.g.item[i].x = world.actor["player"].x
                                   /\ o.g.item[i].y = world.actor["player"].y
                                   /\ o.g.item[i].parent = "game_map"
                                   /\ Occurrences(o.g, i) = 1
               ELSE \A o \in outs :
                        /\ o.result.kind = "KeyError"
                        /\ o.g = world
                        /\ handle_action(world, turn_tracker, o).turn_tracker = turn_tracker

\* The player has dropped a stack of two potions, which now lie on its tile.
C23_Witness ==
    /\ last_call.op = "handle_action"
    /\ last_call.action.type = "DropItem"
    /\ last_call.result.kind = "ok"
    /\ world.message_log[Len(world.message_log)] =
           [kind |-> "You dropped", count |-> 2, name |-> "Health Potion"]
    /\ \A i \in {"potion", "potion2"} : world.item[i].parent = "game_map"

\* C24: for every inventory state and every occupied key k, Drop(k) followed
\* by PickUp on the same tile restores the inventory: key k again holds the
\* same stack contents (as many items, of the same name).
C24_DropPickupRoundTrip ==
    \A key \in InventoryKeys :
        LET inv == world.inventory["player"]
        IN  HasKey(inv, key) =>
                \A o1 \in DropItem_perform(world, "player", key) :
                \A o2 \in PickupAction_perform(o1.g, "player") :
                    LET inv2 == o2.g.inventory["player"]
                    IN  /\ o2.result.kind = "ok"
                        /\ HasKey(inv2, key)
                        /\ Len(StackAt(inv2, key)) = Len(StackAt(inv, key))
                        /\ \A j \in 1..Len(StackAt(inv2, key)) :
                               o2.g.item[StackAt(inv2, key)[j]].name =
                                   world.item[StackAt(inv, key)[1]].name

\* C25: a successful Quaff(key) removes exactly one unit from the stack at
\* key, removing the key when the stack becomes empty, and returns delay 10;
\* a Quaff that fails, because the item has no quaffable consumable or
\* because the consumable's effect reports Impossible, leaves the stack and
\* the rest of the inventory unchanged.
C25_QuaffContract ==
    \A key \in InventoryKeys :
        LET inv == world.inventory["player"]
        IN  HasKey(inv, key) =>
                LET stack == StackAt(inv, key)
                    k == KeyIndex(inv, key)
                    consumable == world.item[stack[1]].consumable
                    outs == QuaffAction_perform(world, "player", key)
                IN  /\ outs # {}
                    /\ (consumable = "None" \/ ~is_quaffable(consumable))
                          => \A o \in outs : o.result.kind = "Impossible"
                    /\ \A o \in outs :
                          LET inv2 == o.g.inventory["player"]
                          IN  IF o.result.kind = "ok"
                              THEN /\ o.result.delay = 10
                                   /\ [inv2 EXCEPT !.items = inv.items] = inv
                                   /\ IF Len(stack) = 1
                                      THEN inv2.items = WithoutKey(inv, key)
                                      ELSE /\ Len(inv2.items) = Len(inv.items)
                                           /\ \A j \in 1..Len(inv.items) : j # k =>
                                                  inv2.items[j] = inv.items[j]
                                           /\ inv2.items[k].key = key
                                           /\ Len(inv2.items[k].stack) = Len(stack) - 1
                                           /\ \A j \in 1..Len(inv2.items[k].stack) :
                                                  \E j2 \in 1..Len(stack) :
                                                      inv2.items[k].stack[j] = stack[j2]
                              ELSE /\ o.result.kind = "Impossible"
                                   /\ inv2 = inv

\* The player has drunk one potion of a stack of two: one is left at the key.
C25_Witness ==
    /\ last_call.op = "handle_action"
    /\ last_call.action.type = "QuaffAction"
    /\ last_call.result.kind = "ok"
    /\ HasKey(world.inventory["player"], last_call.action.item_key)
    /\ Len(StackAt(world.inventory["player"], last_call.action.item_key)) = 1
    /\ world.actor["player"].hp = world.actor["player"].max_hp

\* C26: Wield(key) fails with Impossible and leaves wielded_key unchanged
\* when the item at key is not a melee weapon, and Wear(key) fails with
\* Impossible and leaves the armor references unchanged when the item at key
\* is not armor; on success each sets its reference to key and returns
\* delay 10.
C26_WieldWearValidate ==
    \A key \in InventoryKeys :
        LET inv == world.inventory["player"]
        IN  HasKey(inv, key) =>
                LET item == StackAt(inv, key)[1]
                IN  /\ \A o \in WieldAction_perform(world, "player", key) :
                           IF world.item[item].cls # "MeleeWeapon"
                           THEN /\ o.result.kind = "Impossible"
                                /\ o.g.inventory["player"].wielded_key = inv.wielded_key
                           ELSE /\ o.result = [kind |-> "ok", delay |-> 10]
                                /\ o.g.inventory["player"].wielded_key = key
                    /\ \A o \in WearAction_perform(world, "player", key) :
                           IF world.item[item].cls # "Armor"
                           THEN /\ o.result.kind = "Impossible"
                                /\ o.g.inventory["player"].armor_keys = inv.armor_keys
                           ELSE /\ o.result = [kind |-> "ok", delay |-> 10]
                                /\ \E slot \in ArmorSlot :
                                       o.g.inventory["player"].armor_keys[slot] = key

\* C27: after any sequence of PickUp, Drop and Quaff actions, every occupied
\* inventory key maps to a non-empty stack whose items all have the same
\* name.
C27_StacksUniform ==
    LET inv == world.inventory["player"]
    IN  \A k \in 1..Len(inv.items) :
            /\ inv.items[k].stack # <<>>
            /\ \A j \in 1..Len(inv.items[k].stack) :
                   world.item[inv.items[k].stack[j]].name =
                       world.item[inv.items[k].stack[1]].name
            /\ \A k2 \in 1..Len(inv.items) : k2 # k => inv.items[k2].key # inv.items[k].key

\* The player holds a stack of two potions and the scroll under another
\* key, after a stack was emptied by drinking or dropped.
C27_Witness ==
    LET inv == world.inventory["player"]
    IN  /\ Len(inv.items) = 2
        /\ \E k \in 1..2 : Len(inv.items[k].stack) = 2
        /\ inv.items[1].key = "b"
        /\ inv.items[2].key = "a"

(***************************************************************************)
(* Pick-up and drop harness: the inventory harness with the PickUp and     *)
(* Drop actions alone.                                                     *)
(***************************************************************************)
PickDropActions == {action \in InventoryActions : action.type \in {"PickupAction", "DropItem"}}

PickDropNext == \E action \in PickDropActions : InventoryAct(action)

SpecPickDrop == InventoryInit /\ [][PickDropNext]_vars

\* The places of the stacks of the inventories that hold item i.
StackPlaces(g, i) ==
    {<<a, k, j>> \in Actors \X (1..Len(ALL_KEYS)) \X (1..Cardinality(Items)) :
        /\ k <= Len(g.inventory[a].items)
        /\ j <= Len(g.inventory[a].items[k].stack)
        /\ g.inventory[a].items[k].stack[j] = i}

\* C35: after any sequence of PickUp and Drop actions every item is held by
\* exactly one container, game_map.entities or one stack of one inventory
\* (once), and no two keys of an inventory hold stacks of the same item
\* name.
C35_OneContainer ==
    /\ \A i \in Items : Occurrences(world, i) + Cardinality(StackPlaces(world, i)) = 1
    /\ \A a \in Actors :
          LET inv == world.inventory[a]
          IN  \A k1, k2 \in 1..Len(inv.items) :
                  k1 # k2 => /\ inv.items[k1].key # inv.items[k2].key
                             /\ world.item[inv.items[k1].stack[1]].name #
                                    world.item[inv.items[k2].stack[1]].name

\* The player holds the two potions in one stack; the scroll was picked up
\* and dropped again and lies in the world, behind the actors in the list.
C35_Witness ==
    LET inv == world.inventory["player"]
    IN  /\ Len(inv.items) = 1
        /\ Len(inv.items[1].stack) = 2
        /\ inv.items[1].key = "b"
        /\ world.entities = <<"player", "orc", "troll", "scroll">>
        /\ last_call.op = "handle_action"
        /\ last_call.action.type = "PickupAction"
        /\ last_call.result.kind = "ok"

(***************************************************************************)
(* Claims about the schedule of a game, checked under Spec.                *)
(***************************************************************************)
\* C28: in a game whose scheduler starts with the player and all monsters
\* at tick 0 and whose player turns run as handle_action runs them (the
\* action, the push of the player, the activation loop), the queue never
\* holds more than one entry of the player, so that the player never gets
\* two turns in a row while monsters are due in between.
C28_OnePlayerEntry == EntriesOf(turn_tracker, "player") <= 1

\* C29: whenever the activation loop is not in the middle of an activation,
\* every living non-player actor has exactly one entry in the queue: a
\* living monster is never lost from the schedule and never scheduled twice.
C29_OneEntryPerMonster ==
    \A a \in Actors \ {"player"} :
        is_alive(world, a) => EntriesOf(turn_tracker, a) = 1

\* The loop has returned to the player at a later tick, one monster being
\* dead and the other one alive and queued once.
C29_Witness ==
    /\ pc = "input"
    /\ turn_tracker.current_tick > 0
    /\ \E a, b \in Actors \ {"player"} :
          /\ ~is_alive(world, a)
          /\ is_alive(world, b)
          /\ EntriesOf(turn_tracker, b) = 1

\* The Chebyshev distance between the tiles actor a stands on in g and in h.
Moved(g, h, a) ==
    Max(Abs(h.actor[a].x - g.actor[a].x), Abs(h.actor[a].y - g.actor[a].y))

\* C31: every successful Move performed by a Hostile activation moves the
\* actor to a tile adjacent to its position: whenever a pass of the loop
\* leaves a Hostile monster on another tile, that tile is at Chebyshev
\* distance exactly 1 from the one it stood on.
C31_HostileMoveAdjacent ==
    [][\A a \in Actors \ {"player"} :
          (/\ pc = "enemy_turns"
           /\ world.actor[a].ai.kind = "HostileEnemy"
           /\ Moved(world, world', a) # 0)
          => Moved(world, world', a) = 1]_vars

\* The entities of the map that block movement.
Blockers(g) ==
    {g.entities[i] : i \in {j \in 1..Len(g.entities) : Ent(g, g.entities[j]).blocks_movement}}

\* C32: after any sequence of Move, Bump, MeleeAttack and AI activations of
\* a game, no two movement-blocking entities share a tile and every actor,
\* alive or dead, stands on an in-bounds walkable tile.
C32_TilesConsistent ==
    /\ \A e1, e2 \in Blockers(world) :
          e1 # e2 => <<Ent(world, e1).x, Ent(world, e1).y>> # <<Ent(world, e2).x, Ent(world, e2).y>>
    /\ \A a \in Actors :
          /\ in_bounds(world.actor[a].x, world.actor[a].y)
          /\ walkable(world.actor[a].x, world.actor[a].y)

\* A living actor has stepped onto the tile where another actor died: the
\* two share the tile and only one of them blocks movement; both monsters
\* have left the tiles they were spawned on.
C32_Witness ==
    /\ \E a, b \in Actors :
          /\ a # b
          /\ is_alive(world, a)
          /\ ~is_alive(world, b)
          /\ world.actor[a].x = world.actor[b].x
          /\ world.actor[a].y = world.actor[b].y
    /\ \A a \in Actors \ {"player"} :
          <<world.actor[a].x, world.actor[a].y>> # <<InitActor[a].x, InitActor[a].y>>

(***************************************************************************)
(* Loop harness: the game, with confusion cast on the monsters between the *)
(* player's turns; every call of handle_enemy_turns is run on, pass after  *)
(* pass.                                                                   *)
(***************************************************************************)
\* A confusion of n turns is cast on monster a while the game waits for the
\* player.
LoopConfuse(a, n) ==
    /\ pc = "input"
    /\ handler = "MainGameEventHandler"
    /\ turn_tracker.current_tick < MaxTick
    /\ AIConfuse(a, n)

\* What the player does in the loop harness: it waits, so that the monsters
\* come to it and attack it until it dies.
LoopActions == {action \in PlayerActions : action.type = "WaitAction"}

\* The entries a tracker of the loop harness hands out at most: the three
\* of the spawns and a handful per turn of the player.  A loop that never
\* returned would use them up and stop, inside the loop, for ever.
MaxEntries == 2 * MaxTick

\* The loop of handle_enemy_turns is running.
LoopRunning ==
    /\ pc = "enemy_turns"
    /\ turn_tracker.entry_counter < MaxEntries

\* One pass of the loop of handle_enemy_turns.
LoopEnemyTurn ==
    /\ LoopRunning
    /\ EnemyTurn

\* The pass of the loop taken when the player has died: the call returns.
LoopEnemyTurnPlayerDead ==
    /\ LoopRunning
    /\ ~is_alive(world, "player")
    /\ EnemyTurn

LoopNext ==
    \/ \E action \in LoopActions : PlayerTurn(action)
    \/ \E a \in Confusable, n \in 0..MaxTurns : LoopConfuse(a, n)
    \/ LoopEnemyTurn

\* The while loop of handle_enemy_turns keeps running once it is entered:
\* weak fairness of LoopEnemyTurn.  Every pass pops an entry or returns, so
\* it changes the tracker or pc, and a pass is possible exactly when
\* LoopRunning holds; WF_vars(LoopEnemyTurn) is therefore written with
\* LoopRunning in the place of ENABLED <<LoopEnemyTurn>>_vars, which TLC
\* evaluates by running the pathfinder without its memoised distances.  For
\* the pass of a dead player no path is computed and the fairness is stated
\* as it is.
LoopFairness ==
    /\ WF_vars(LoopEnemyTurnPlayerDead)
    /\ []<>(~LoopRunning) \/ []<><<LoopEnemyTurn>>_vars

SpecLoop == Init /\ [][LoopNext]_vars /\ LoopFairness

\* C30: every call of the activation loop terminates.  Once the loop is
\* entered, after finitely many activations of other actors it returns
\* because the player was popped or has died, also when actors are Confused
\* and return delay 0.
C30_LoopTerminates ==
    (pc = "enemy_turns") ~>
        (/\ pc = "input"
         /\ last_call.op = "handle_enemy_turns"
         /\ last_call.step = "return")

\* The loop has returned on the player after a monster's confusion ended
\* with a delay of 0.
C30_Witness ==
    /\ pc = "input"
    /\ last_call.op = "handle_enemy_turns"
    /\ last_call.step = "return"
    /\ last_call.actor = "player"
    /\ Len(world.message_log) > 0
    /\ world.message_log[Len(world.message_log)].kind = "is no longer confused"

(***************************************************************************)
(* Claims about Confused actors in the loop, checked under SpecLoop.       *)
(***************************************************************************)
\* The entries of actor a in heap h.
EntriesFor(h, a) == {h[i] : i \in {j \in 1..Len(h) : h[j][3] = a}}

\* Entry e is popped before entry f: an earlier due tick, or the same tick
\* and an earlier push.
EntryBefore(e, f) == e[1] < f[1] \/ (e[1] = f[1] /\ e[2] < f[2])

\* The pass of the loop from world and turn_tracker activates monster a.
Activates(a) ==
    /\ pc = "enemy_turns"
    /\ last_call'.op = "handle_enemy_turns"
    /\ last_call'.step = "perform"
    /\ last_call'.actor = a

\* C34: the restoring activation of a Confused actor (turns_remaining <= 0)
\* restores the previous behavior and queues the actor once more at the
\* tick of that activation, behind every entry already queued for that tick
\* and ahead of every entry due later; and an actor is activated only when
\* its entry is the first of the queue, at the tick of that entry, so the
\* restored behavior acts at the same tick, after the former and before the
\* latter.
C34_RestoredActsSameTick ==
    [][\A a \in Actors \ {"player"} :
          Activates(a) =>
             /\ \E e \in EntriesFor(turn_tracker.actor_heap, a) :
                   /\ turn_tracker'.current_tick = e[1]
                   /\ \A i \in 1..Len(turn_tracker.actor_heap) :
                         turn_tracker.actor_heap[i] # e => EntryBefore(e, turn_tracker.actor_heap[i])
             /\ (world.actor[a].ai.kind = "ConfusedEnemy" /\ world.actor[a].ai.turns_remaining <= 0)
                   => /\ world'.actor[a].ai = world.actor[a].ai.previous_ai
                      /\ Moved(world, world', a) = 0
                      /\ \E e \in EntriesFor(turn_tracker'.actor_heap, a) :
                            /\ EntriesFor(turn_tracker'.actor_heap, a) = {e}
                            /\ e[1] = turn_tracker'.current_tick
                            /\ \A i \in 1..Len(turn_tracker'.actor_heap) :
                                  LET f == turn_tracker'.actor_heap[i]
                                  IN  f # e => IF f[1] = e[1] THEN EntryBefore(f, e)
                                               ELSE f[1] > e[1]]_vars

\* The orc's confusion ended at a tick for which the troll was queued as
\* well; the troll was activated, then the orc with its restored behavior,
\* both at that tick, and they are queued for the next one.
C34_Witness ==
    /\ pc = "enemy_turns"
    /\ turn_tracker.current_tick > 0
    /\ last_call.op = "handle_enemy_turns"
    /\ last_call.step = "perform"
    /\ last_call.actor = "orc"
    /\ world.actor["orc"].ai.kind = "HostileEnemy"
    /\ Len(world.message_log) > 0
    /\ world.message_log[Len(world.message_log)].kind = "is no longer confused"
    /\ is_alive(world, "troll")
    /\ \A a \in {"orc", "troll"} :
          \A e \in EntriesFor(turn_tracker.actor_heap, a) : e[1] = turn_tracker.current_tick + 10

====
